---- MODULE Spec2Model ----
(***************************************************************************)
(* Model of the Edgecore AS9817-32O platform glue:                         *)
(*   - sonic_platform/sfp.py: the Sfp transceiver object;                  *)
(*   - utils/accton_as9817_32o_util.py: the installer utility.             *)
(* Every hardware access (sysfs read/write, EEPROM read, transceiver API   *)
(* call, shell command) is an input of the call that makes it; the call    *)
(* records what it read, what it issued and what it returned.              *)
(***************************************************************************)
EXTENDS Integers, Sequences, FiniteSets, TLC

VARIABLES
    port_num,   \* Sfp.port_num (= sfp_index + 1)
    sfp_type,   \* Sfp.sfp_type
    call,       \* the last Sfp method call: inputs read, accesses issued, result
    FORCE,      \* the utility's global FORCE
    run,        \* the utility's run: arguments, what it asked of the system
                \* (in order, with the answers), how it ended
    thermal     \* the high / high-critical thresholds of the thermal the
                \* threshold command names, as the platform daemon holds them

sfpVars == <<port_num, sfp_type, call>>

utilVars == <<FORCE, run, thermal>>

vars == <<port_num, sfp_type, call, FORCE, run, thermal>>

(***************************************************************************)
(* Text helpers                                                            *)
(***************************************************************************)
DecDigits == <<"0", "1", "2", "3", "4", "5", "6", "7", "8", "9">>

RECURSIVE ToStr(_)
\* str(n) / "{}".format(n) for n >= 0
ToStr(n) == IF n < 10 THEN DecDigits[n + 1]
            ELSE ToStr(n \div 10) \o DecDigits[(n % 10) + 1]

RECURSIVE BitAnd(_, _)
\* a & b on non-negative integers
BitAnd(a, b) == IF a = 0 \/ b = 0 THEN 0
                ELSE 2 * BitAnd(a \div 2, b \div 2) + ((a % 2) * (b % 2))

RECURSIVE BitOr(_, _)
\* a | b on non-negative integers
BitOr(a, b) == IF a = 0 THEN b
               ELSE IF b = 0 THEN a
               ELSE 2 * BitOr(a \div 2, b \div 2)
                    + (IF (a % 2) + (b % 2) > 0 THEN 1 ELSE 0)

(***************************************************************************)
(* sfp.py: constants                                                       *)
(***************************************************************************)
FPGA_PCIE_PATH == "/sys/devices/platform/as9817_32_fpga/"

PORT_START == 1
PORT_END == 34

\* how far beyond PORT_END the modelled port numbers go
MaxPortOver == 2

\* port numbers an Sfp can be constructed with (sfp_index >= 0)
PortNums == PORT_START..(PORT_END + MaxPortOver)

SFP_TYPE_CODE_LIST == {3, 11}              \* 0x03, 0x0b
QSFP_TYPE_CODE_LIST == {12, 13, 17, 225}   \* 0x0c, 0x0d, 0x11, 0xe1
QSFP_DD_TYPE_CODE_LIST == {24, 30}         \* 0x18, 0x1E
OSFP_TYPE_CODE_LIST == {25}                \* 0x19

SFP_TYPE == "SFP"
QSFP_TYPE == "QSFP"
OSFP_TYPE == "OSFP"
QSFP_DD_TYPE == "QSFP_DD"

UPDATE_DONE == "Done"
EEPROM_DATA_NOT_READY == "eeprom not ready"
UNKNOWN_SFP_TYPE_ID == "unknow sfp ID"

\* the mapping with the last entry mistyped (34:34)
port_to_i2c_mapping_LastEntry ==
    [x \in 1..34 |-> IF x = 34 THEN 34 ELSE x + 1]

\* Sfp._port_to_i2c_mapping, entry by entry
port_to_i2c_mapping ==
    ( 1 :>  2) @@ ( 2 :>  3) @@ ( 3 :>  4) @@ ( 4 :>  5) @@
    ( 5 :>  6) @@ ( 6 :>  7) @@ ( 7 :>  8) @@ ( 8 :>  9) @@
    ( 9 :> 10) @@ (10 :> 11) @@ (11 :> 12) @@ (12 :> 13) @@
    (13 :> 14) @@ (14 :> 15) @@ (15 :> 16) @@ (16 :> 17) @@
    (17 :> 18) @@ (18 :> 19) @@ (19 :> 20) @@ (20 :> 21) @@
    (21 :> 22) @@ (22 :> 23) @@ (23 :> 24) @@ (24 :> 25) @@
    (25 :> 26) @@ (26 :> 27) @@ (27 :> 28) @@ (28 :> 29) @@
    (29 :> 30) @@ (30 :> 31) @@ (31 :> 32) @@ (32 :> 33) @@
    (33 :> 34) @@ (34 :> 35)

\* EEPROM_PATH.format(bus, addr)
EEPROM_PATH(bus, addr) ==
    "/sys/bus/i2c/devices/" \o ToStr(bus) \o "-00" \o addr \o "/eeprom"

\* Sfp.__init__: port_to_eeprom_mapping, built for PORT_START..PORT_END
port_to_eeprom_mapping ==
    [x \in PORT_START..PORT_END |-> EEPROM_PATH(port_to_i2c_mapping[x], "50")]

(***************************************************************************)
(* The hardware as the Sfp methods see it                                  *)
(***************************************************************************)
\* APIHelper.read_txt_file on a 0/1 sysfs node: None when it cannot be read
TxtReads == {"None", "0", "1"}

\* APIHelper.write_txt_file: True when the write went through
WriteResults == {"True", "False"}

\* SfpOptoeBase.read_eeprom(0, 1): no data, or the identifier byte
NoData == -1
EepromReads == {NoData} \cup (0..255)

\* one sysfs read, one sysfs write, one transceiver-API call
IoRead(path) == [kind |-> "read", target |-> path, value |-> ""]
IoWrite(path, v) == [kind |-> "write", target |-> path, value |-> v]
IoApi(method, arg) == [kind |-> "api", target |-> method, value |-> arg]

\* "{}{}{}".format(FPGA_PCIE_PATH, node, port_num), for every modelled port
NodePaths(node) == [p \in PortNums |-> FPGA_PCIE_PATH \o node \o ToStr(p)]

\* sysfs node paths as the methods format them
PresentPaths == NodePaths("/module_present_")
ResetPaths == NodePaths("module_reset_")
LpmodePaths == NodePaths("module_lp_mode_")
LpmodeReadPaths == NodePaths("/module_lp_mode_")
TxDisablePaths == NodePaths("module_tx_disable_")

present_path(p) == PresentPaths[p]
reset_path(p) == ResetPaths[p]
lpmode_path(p) == LpmodePaths[p]
lpmode_read_path(p) == LpmodeReadPaths[p]
txdisable_path(p) == TxDisablePaths[p]

\* Sfp.get_presence, given what the presence node read
get_presence(val) == IF val # "None" THEN val = "1" ELSE FALSE

\* int(val, 10) == 1 as a Python bool
PyBool(b) == IF b THEN "True" ELSE "False"

\* the record of one method call
Call(op, arg, pres, input, before, ret, io) ==
    [op |-> op, arg |-> arg, pres |-> pres, input |-> input,
     type_before |-> before, ret |-> ret, io |-> io]

(***************************************************************************)
(* Sfp.update_sfp_type                                                     *)
(***************************************************************************)
\* ClassifyId with 0x1e (QSFP+ with CMIS) tested against the QSFP list
ClassifyId_CmisAsQsfp(b, cur) ==
    IF b \in SFP_TYPE_CODE_LIST THEN <<SFP_TYPE, UPDATE_DONE>>
    ELSE IF b \in QSFP_TYPE_CODE_LIST \cup {30} THEN <<QSFP_TYPE, UPDATE_DONE>>
    ELSE IF b \in QSFP_DD_TYPE_CODE_LIST THEN <<QSFP_DD_TYPE, UPDATE_DONE>>
    ELSE IF b \in OSFP_TYPE_CODE_LIST THEN <<OSFP_TYPE, UPDATE_DONE>>
    ELSE <<cur, UNKNOWN_SFP_TYPE_ID>>

\* the if/elif chain over eeprom_raw[0]: <<new sfp_type, status>>
ClassifyId(b, cur) ==
    IF b \in SFP_TYPE_CODE_LIST THEN <<SFP_TYPE, UPDATE_DONE>>
    ELSE IF b \in QSFP_TYPE_CODE_LIST THEN <<QSFP_TYPE, UPDATE_DONE>>
    ELSE IF b \in QSFP_DD_TYPE_CODE_LIST THEN <<QSFP_DD_TYPE, UPDATE_DONE>>
    ELSE IF b \in OSFP_TYPE_CODE_LIST THEN <<OSFP_TYPE, UPDATE_DONE>>
    ELSE <<cur, UNKNOWN_SFP_TYPE_ID>>

\* Sfp.get_eeprom_path: the path, or KeyError for a port outside the mapping
get_eeprom_path(p) ==
    IF p \in DOMAIN port_to_eeprom_mapping THEN port_to_eeprom_mapping[p]
    ELSE "KeyError"

\* update_sfp_type whose final else reports an unknown identifier
update_sfp_type_NoDataUnknown(p, cur, pres, eeprom_raw) ==
    IF ~get_presence(pres)
    THEN <<cur, EEPROM_DATA_NOT_READY, <<IoRead(present_path(p))>>>>
    ELSE IF get_eeprom_path(p) = "KeyError"
    THEN <<cur, "KeyError", <<IoRead(present_path(p))>>>>
    ELSE LET io == <<IoRead(present_path(p)), IoRead(get_eeprom_path(p))>>
         IN  IF eeprom_raw # NoData
             THEN <<ClassifyId(eeprom_raw, cur)[1],
                    ClassifyId(eeprom_raw, cur)[2], io>>
             ELSE <<cur, UNKNOWN_SFP_TYPE_ID, io>>

\* update_sfp_type that falls back to QSFP when it recognises nothing
update_sfp_type_Forgets(p, cur, pres, eeprom_raw) ==
    IF ~get_presence(pres)
    THEN <<QSFP_TYPE, EEPROM_DATA_NOT_READY, <<IoRead(present_path(p))>>>>
    ELSE IF get_eeprom_path(p) = "KeyError"
    THEN <<cur, "KeyError", <<IoRead(present_path(p))>>>>
    ELSE LET io == <<IoRead(present_path(p)), IoRead(get_eeprom_path(p))>>
         IN  IF eeprom_raw # NoData
             THEN <<ClassifyId(eeprom_raw, QSFP_TYPE)[1],
                    ClassifyId(eeprom_raw, QSFP_TYPE)[2], io>>
             ELSE <<QSFP_TYPE, EEPROM_DATA_NOT_READY, io>>

\* update_sfp_type on port p with current type cur:
\* <<new sfp_type, returned status (or the exception raised), accesses>>;
\* read_eeprom opens get_eeprom_path(), whose KeyError nothing catches
update_sfp_type(p, cur, pres, eeprom_raw) ==
    IF ~get_presence(pres)
    THEN <<cur, EEPROM_DATA_NOT_READY, <<IoRead(present_path(p))>>>>
    ELSE IF get_eeprom_path(p) = "KeyError"
    THEN <<cur, "KeyError", <<IoRead(present_path(p))>>>>
    ELSE LET io == <<IoRead(present_path(p)), IoRead(get_eeprom_path(p))>>
         IN  IF eeprom_raw # NoData
             THEN <<ClassifyId(eeprom_raw, cur)[1],
                    ClassifyId(eeprom_raw, cur)[2], io>>
             ELSE <<cur, EEPROM_DATA_NOT_READY, io>>

UpdateSfpType ==
    \E pres \in TxtReads :
    \E raw \in (IF get_presence(pres) THEN EepromReads ELSE {NoData}) :
        LET r == update_sfp_type(port_num, sfp_type, pres, raw)
        IN  /\ sfp_type' = r[1]
            /\ call' = Call("update_sfp_type", "", pres, raw, sfp_type, r[2],
                            r[3])
            /\ UNCHANGED <<port_num, utilVars>>

(***************************************************************************)
(* The utility before any run                                              *)
(***************************************************************************)
\* the utility has not run yet
NotRun == [cmd |-> "", args |-> <<>>,
           sys |-> [drivers |-> FALSE, dev0070 |-> FALSE, i2c2 |-> FALSE],
           env |-> [at |-> 0, rest |-> FALSE],
           log |-> <<>>, ret |-> "None", exc |-> ""]

\* module load: FORCE = 0, nothing run; the thermal is some thermal of the
\* platform daemon
InitUtil ==
    /\ FORCE = 0
    /\ run = NotRun
    /\ thermal = [high |-> 30, crit |-> 110]

(***************************************************************************)
(* Sfp.__init__                                                            *)
(***************************************************************************)
\* the constructor on the ports P, the EEPROM reading one of R: sfp_type
\* starts as QSFP and update_sfp_type runs once; a KeyError raised by it
\* leaves no object
InitSfp(P, R) ==
    /\ InitUtil
    /\ port_num \in P
    /\ \E pres \in TxtReads :
       \E raw \in (IF get_presence(pres) THEN R ELSE {NoData}) :
           LET r == update_sfp_type(port_num, QSFP_TYPE, pres, raw)
           IN  /\ r[2] # "KeyError"
               /\ sfp_type = r[1]
               /\ call = Call("__init__", "", pres, raw, QSFP_TYPE, r[2],
                              r[3])

(***************************************************************************)
(* Sfp.get_eeprom_path                                                     *)
(***************************************************************************)
GetEepromPath ==
    /\ call' = Call("get_eeprom_path", "", "None", NoData, sfp_type,
                    get_eeprom_path(port_num), <<>>)
    /\ UNCHANGED <<port_num, sfp_type, utilVars>>

(***************************************************************************)
(* Sfp.get_lpmode / set_lpmode / tx_disable / reset                        *)
(***************************************************************************)
\* the values a caller may pass for a Boolean argument: True, False, and a
\* truthy value that is not the object True
PyArgs == {"True", "False", "1"}

\* SfpOptoeBase.get_xcvr_api: None, or an API object, named here by the
\* result its setter or getter gives
XcvrApis == {"None", "True", "False"}

\* what the hardware answered in one call: the transceiver API (or, for
\* reset, the first write) and the sysfs access
HwInput(api, wr) == [api |-> api, wr |-> wr]

\* the answers the hardware can give once the module is seen present; a
\* method that returns on an absent module consults nothing further
Consulted(pres, answers, unused) ==
    IF get_presence(pres) THEN answers ELSE {unused}

\* a method call on the object get_xcvr_api returned
ApiCall(api) == IF api = "None" THEN "AttributeError" ELSE api

\* get_lpmode: <<result, accesses>>; val is what the lp_mode node reads
get_lpmode(p, type, val, api) ==
    IF p > 32 THEN <<"False", <<>>>>
    ELSE IF type \in {QSFP_DD_TYPE, OSFP_TYPE}
         THEN <<ApiCall(api), <<IoApi("get_lpmode", "")>>>>
    ELSE IF val # "None"
         THEN <<PyBool(val = "1"), <<IoRead(lpmode_read_path(p))>>>>
    ELSE <<"False", <<IoRead(lpmode_read_path(p))>>>>

GetLpmode ==
    \E val \in TxtReads, api \in XcvrApis :
        LET r == get_lpmode(port_num, sfp_type, val, api)
        IN  /\ call' = Call("get_lpmode", "", "None", HwInput(api, val),
                            sfp_type, r[1], r[2])
            /\ UNCHANGED <<port_num, sfp_type, utilVars>>

\* set_lpmode with the port check off by one (port_num > 33)
set_lpmode_PortCheck(p, type, lpmode, pres, api, wr) ==
    IF ~get_presence(pres) THEN <<"False", <<IoRead(present_path(p))>>>>
    ELSE IF p > 33 THEN <<"False", <<IoRead(present_path(p))>>>>
    ELSE IF type \in {QSFP_DD_TYPE, OSFP_TYPE}
         THEN <<ApiCall(api),
                <<IoRead(present_path(p)), IoApi("set_lpmode", lpmode)>>>>
    ELSE IF lpmode = "True"
         THEN <<wr, <<IoRead(present_path(p)), IoWrite(lpmode_path(p), "1")>>>>
    ELSE <<wr, <<IoRead(present_path(p)), IoWrite(lpmode_path(p), "0")>>>>

\* set_lpmode: <<result, accesses>>
set_lpmode(p, type, lpmode, pres, api, wr) ==
    IF ~get_presence(pres) THEN <<"False", <<IoRead(present_path(p))>>>>
    ELSE IF p > 32 THEN <<"False", <<IoRead(present_path(p))>>>>
    ELSE IF type \in {QSFP_DD_TYPE, OSFP_TYPE}
         THEN <<ApiCall(api),
                <<IoRead(present_path(p)), IoApi("set_lpmode", lpmode)>>>>
    ELSE IF lpmode = "True"
         THEN <<wr, <<IoRead(present_path(p)), IoWrite(lpmode_path(p), "1")>>>>
    ELSE <<wr, <<IoRead(present_path(p)), IoWrite(lpmode_path(p), "0")>>>>

SetLpmode ==
    \E lpmode \in PyArgs, pres \in TxtReads :
    \E api \in Consulted(pres, XcvrApis, "None"),
       wr \in Consulted(pres, WriteResults, "False") :
        LET r == set_lpmode(port_num, sfp_type, lpmode, pres, api, wr)
        IN  /\ call' = Call("set_lpmode", lpmode, pres, HwInput(api, wr),
                            sfp_type, r[1], r[2])
            /\ UNCHANGED <<port_num, sfp_type, utilVars>>

\* tx_disable writing the argument's truth value (if tx_disable:) for
\* ports 33 and 34
tx_disable_Truthy(p, arg, pres, api, wr) ==
    IF ~get_presence(pres) THEN <<"False", <<IoRead(present_path(p))>>>>
    ELSE IF p < 33
         THEN IF api = "None" THEN <<"False", <<IoRead(present_path(p))>>>>
              ELSE <<api,
                     <<IoRead(present_path(p)), IoApi("tx_disable", arg)>>>>
    ELSE IF arg \in {"True", "1"}
         THEN <<wr, <<IoRead(present_path(p)),
                      IoWrite(txdisable_path(p), "1")>>>>
    ELSE <<wr, <<IoRead(present_path(p)), IoWrite(txdisable_path(p), "0")>>>>

\* tx_disable: <<result, accesses>>
tx_disable(p, arg, pres, api, wr) ==
    IF ~get_presence(pres) THEN <<"False", <<IoRead(present_path(p))>>>>
    ELSE IF p < 33
         THEN IF api = "None" THEN <<"False", <<IoRead(present_path(p))>>>>
              ELSE <<api,
                     <<IoRead(present_path(p)), IoApi("tx_disable", arg)>>>>
    ELSE IF arg = "True"
         THEN <<wr, <<IoRead(present_path(p)),
                      IoWrite(txdisable_path(p), "1")>>>>
    ELSE <<wr, <<IoRead(present_path(p)), IoWrite(txdisable_path(p), "0")>>>>

TxDisable ==
    \E arg \in PyArgs, pres \in TxtReads :
    \E api \in Consulted(pres, XcvrApis, "None"),
       wr \in Consulted(pres, WriteResults, "False") :
        LET r == tx_disable(port_num, arg, pres, api, wr)
        IN  /\ call' = Call("tx_disable", arg, pres, HwInput(api, wr),
                            sfp_type, r[1], r[2])
            /\ UNCHANGED <<port_num, sfp_type, utilVars>>

\* reset going on to the write of 0 when the write of 1 failed
reset_WritesOn(p, pres, wr1, wr0) ==
    IF ~get_presence(pres) THEN <<"False", <<IoRead(present_path(p))>>>>
    ELSE IF p > 32 THEN <<"False", <<IoRead(present_path(p))>>>>
    ELSE <<wr0, <<IoRead(present_path(p)), IoWrite(reset_path(p), "1"),
                  IoWrite(reset_path(p), "0")>>>>

\* reset: <<result, accesses>>; wr1, wr0 are the results of the two writes
reset(p, pres, wr1, wr0) ==
    IF ~get_presence(pres) THEN <<"False", <<IoRead(present_path(p))>>>>
    ELSE IF p > 32 THEN <<"False", <<IoRead(present_path(p))>>>>
    ELSE IF wr1 # "True"
         THEN <<wr1, <<IoRead(present_path(p)), IoWrite(reset_path(p), "1")>>>>
    ELSE <<wr0, <<IoRead(present_path(p)), IoWrite(reset_path(p), "1"),
                  IoWrite(reset_path(p), "0")>>>>

Reset ==
    \E pres \in TxtReads :
    \E wr1 \in Consulted(pres, WriteResults, "False"),
       wr0 \in Consulted(pres, WriteResults, "False") :
        LET r == reset(port_num, pres, wr1, wr0)
        IN  /\ call' = Call("reset", "", pres, HwInput(wr1, wr0), sfp_type,
                            r[1], r[2])
            /\ UNCHANGED <<port_num, sfp_type, utilVars>>

(***************************************************************************)
(* Sfp.validate_temperature / __get_error_description                      *)
(***************************************************************************)
\* inherited from SfpBase
SFP_STATUS_OK == "OK"
SFP_STATUS_UNPLUGGED == "Unplugged"
SFP_STATUS_BIT_INSERTED == 1
SFP_ERROR_BIT_BLOCKING == 2
SFP_ERROR_BIT_POWER_BUDGET_EXCEEDED == 4
SFP_ERROR_BIT_I2C_STUCK == 8
SFP_ERROR_BIT_BAD_EEPROM == 16
SFP_ERROR_BIT_UNSUPPORTED_CABLE == 32
SFP_ERROR_BIT_HIGH_TEMP == 64
SFP_ERROR_BIT_BAD_CABLE == 128

\* SfpBase.SFP_ERROR_BIT_TO_DESCRIPTION_DICT, in insertion order
SFP_ERROR_BIT_TO_DESCRIPTION_DICT == <<
    <<SFP_ERROR_BIT_BLOCKING, "Blocking EEPROM from being read">>,
    <<SFP_ERROR_BIT_POWER_BUDGET_EXCEEDED, "Power budget exceeded">>,
    <<SFP_ERROR_BIT_I2C_STUCK, "Bus stuck (I2C data or clock shorted)">>,
    <<SFP_ERROR_BIT_BAD_EEPROM, "Bad or unsupported EEPROM">>,
    <<SFP_ERROR_BIT_UNSUPPORTED_CABLE, "Unsupported cable">>,
    <<SFP_ERROR_BIT_HIGH_TEMP, "High temperature">>,
    <<SFP_ERROR_BIT_BAD_CABLE, "Bad cable (module/cable is shorted)">> >>

\* SFP_ERROR_BIT_TO_DESCRIPTION_DICT[key]
ErrorDescription(key) ==
    LET i == CHOOSE j \in 1..Len(SFP_ERROR_BIT_TO_DESCRIPTION_DICT) :
                 SFP_ERROR_BIT_TO_DESCRIPTION_DICT[j][1] = key
    IN  SFP_ERROR_BIT_TO_DESCRIPTION_DICT[i][2]

\* what get_temperature gives: None, a non-float ('N/A'), or degrees
Temperatures == {[kind |-> "None", v |-> 0], [kind |-> "str", v |-> 0],
                 [kind |-> "float", v |-> 40], [kind |-> "float", v |-> 70]}

\* what get_transceiver_threshold_info gives: None, or a dict whose
\* 'temphighalarm' is a non-float or degrees
ThresholdInfos == {[kind |-> "None", v |-> 0], [kind |-> "str", v |-> 0],
                   [kind |-> "float", v |-> 70]}

\* what get_checksum_error gives: '' when the checksums are good
ChecksumErrors == {"", "EEPROM checksum error"}

validate_temperature(temperature, threshold_dict) ==
    IF temperature.kind = "None" THEN FALSE
    ELSE IF threshold_dict.kind = "None" THEN FALSE
    ELSE IF temperature.kind # "float" THEN TRUE
    ELSE IF threshold_dict.kind # "float" THEN TRUE
    ELSE threshold_dict.v > temperature.v

RECURSIVE RenderErrors(_, _, _, _, _)
\* the loop over the dictionary's keys, from entry i, with err_desc and cnt
RenderErrors(i, err_stat, err_eeprom, err_desc, cnt) ==
    IF i > Len(SFP_ERROR_BIT_TO_DESCRIPTION_DICT) THEN err_desc
    ELSE LET key == SFP_ERROR_BIT_TO_DESCRIPTION_DICT[i][1]
         IN  IF BitAnd(err_stat, key) # 0
             THEN LET d1 == IF cnt > 0 THEN err_desc \o "|" ELSE err_desc
                      c1 == IF cnt > 0 THEN cnt + 1 ELSE cnt
                      d2 == IF key = SFP_ERROR_BIT_BAD_EEPROM
                            THEN d1 \o err_eeprom
                            ELSE d1 \o ErrorDescription(key)
                  IN  RenderErrors(i + 1, err_stat, err_eeprom, d2, c1)
             ELSE RenderErrors(i + 1, err_stat, err_eeprom, err_desc, cnt)

\* Sfp.__get_error_description
private_get_error_description(pres, err_eeprom, temperature, threshold_dict) ==
    IF ~get_presence(pres) THEN SFP_STATUS_UNPLUGGED
    ELSE LET s0 == SFP_STATUS_BIT_INSERTED
             s1 == IF err_eeprom # ""
                   THEN BitOr(s0, SFP_ERROR_BIT_BAD_EEPROM) ELSE s0
             s2 == IF ~validate_temperature(temperature, threshold_dict)
                   THEN BitOr(s1, SFP_ERROR_BIT_HIGH_TEMP) ELSE s1
         IN  IF s2 = SFP_STATUS_BIT_INSERTED THEN SFP_STATUS_OK
             ELSE RenderErrors(1, s2, err_eeprom, "", 0)

\* the inputs of one __get_error_description call, as the call records them
ErrInput(err_eeprom, temperature, threshold_dict) ==
    [err_eeprom |-> err_eeprom, temperature |-> temperature,
     threshold_dict |-> threshold_dict]

PrivateGetErrorDescription ==
    \E pres \in TxtReads, e \in ChecksumErrors, t \in Temperatures,
       d \in ThresholdInfos :
        /\ call' = Call("__get_error_description", "", pres,
                        ErrInput(e, t, d), sfp_type,
                        private_get_error_description(pres, e, t, d),
                        <<IoRead(present_path(port_num))>>)
        /\ UNCHANGED <<port_num, sfp_type, utilVars>>

\* what SfpOptoeBase.get_error_description gives: None, a state of the
\* module or of a data path, or NotImplementedError raised by the API
OptoeStates == {"None", "NotImplementedError", "ModuleLowPwr"}

\* Sfp.get_error_description, given the presence it read, the transceiver
\* API, what the base class gave and what __get_error_description gave
get_error_description(pres, api, optoe, state) ==
    IF ~get_presence(pres) THEN SFP_STATUS_UNPLUGGED
    ELSE IF api = "None" THEN ErrorDescription(SFP_ERROR_BIT_BAD_EEPROM)
    ELSE LET optoe_state == IF optoe = "NotImplementedError" THEN "None"
                            ELSE optoe
         IN  IF state = SFP_STATUS_OK
             THEN IF optoe_state = "None" THEN SFP_STATUS_OK
                  ELSE optoe_state
             ELSE IF optoe_state = "None" THEN state
                  ELSE optoe_state \o "|" \o state

\* the inputs of one get_error_description call, as the call records them:
\* pres2 is the presence __get_error_description read
PublicErrInput(api, optoe, pres2, err_eeprom, temperature, threshold_dict) ==
    [api |-> api, optoe |-> optoe, pres2 |-> pres2,
     err_eeprom |-> err_eeprom, temperature |-> temperature,
     threshold_dict |-> threshold_dict]

\* the inputs a get_error_description call gets to read: nothing after an
\* absent module or a missing API, no EEPROM or temperature after
\* __get_error_description saw the module absent
PublicErrInputs(pres) ==
    LET none == [kind |-> "None", v |-> 0]
    IN  IF ~get_presence(pres)
        THEN {PublicErrInput("None", "None", "None", "", none, none)}
        ELSE {PublicErrInput("None", "None", "None", "", none, none)}
             \cup {PublicErrInput("api", optoe, pres2, "", none, none) :
                       optoe \in OptoeStates, pres2 \in {"None", "0"}}
             \cup {PublicErrInput("api", optoe, "1", e, t, d) :
                       optoe \in OptoeStates, e \in ChecksumErrors,
                       t \in Temperatures, d \in ThresholdInfos}

GetErrorDescription ==
    \E pres \in TxtReads :
    \E in \in PublicErrInputs(pres) :
        /\ call' = Call("get_error_description", "", pres, in, sfp_type,
                        get_error_description(pres, in.api, in.optoe,
                            private_get_error_description(in.pres2,
                                in.err_eeprom, in.temperature,
                                in.threshold_dict)),
                        IF get_presence(pres) /\ in.api # "None"
                        THEN <<IoRead(present_path(port_num)),
                               IoRead(present_path(port_num))>>
                        ELSE <<IoRead(present_path(port_num))>>)
        /\ UNCHANGED <<port_num, sfp_type, utilVars>>

NextSfp ==
    \/ GetEepromPath
    \/ GetLpmode
    \/ SetLpmode
    \/ TxDisable
    \/ Reset

\* every Sfp method on every port number
\* the identifier bytes of the four code lists and one that is in none
IdBytes == SFP_TYPE_CODE_LIST \cup QSFP_TYPE_CODE_LIST
           \cup QSFP_DD_TYPE_CODE_LIST \cup OSFP_TYPE_CODE_LIST
           \cup {0, NoData}

SpecSfp == InitSfp(PortNums, IdBytes) /\ [][NextSfp]_vars

\* the ports update_sfp_type and __get_error_description tell apart: in the
\* EEPROM mapping or not
EdgePorts == {PORT_START, PORT_END, PORT_END + 1}

\* module-type detection over the life of one Sfp
SpecSfpType == InitSfp(EdgePorts, EepromReads) /\ [][UpdateSfpType]_vars

\* error aggregation over the life of one Sfp
SpecSfpErr ==
    InitSfp(EdgePorts, IdBytes)
        /\ [][PrivateGetErrorDescription \/ GetErrorDescription]_vars

\* the Sfp object the utility's runs leave alone
IdleSfp ==
    /\ port_num = PORT_START
    /\ sfp_type = QSFP_TYPE
    /\ call = Call("", "", "None", NoData, QSFP_TYPE, "", <<>>)

\* module load of the utility next to that Sfp object, the thermal one of T
InitIdle(T) ==
    /\ FORCE = 0
    /\ run = NotRun
    /\ thermal \in T
    /\ IdleSfp

(***************************************************************************)
(* accton_as9817_32o_util.py: the system as the utility sees it            *)
(***************************************************************************)
\* The utility asks the system one thing after another: a shell command, a
\* path test, a file operation. A run's log holds every request in the
\* order asked. The answers of a run are fixed by which request is the
\* first to fail and whether the later ones fail too; the ls commands of
\* driver_check and device_exist answer by the state of the machine.

\* the longest run's number of requests
MaxRequests == 371

\* the first failing request (0: none) and whether those after it fail too
Faults == {[at |-> k, rest |-> r] :
               k \in 0..MaxRequests, r \in BOOLEAN} \ {[at |-> 0, rest |-> TRUE]}

\* the n-th request of the run fails
Fails(env, n) ==
    IF "bad" \in DOMAIN env THEN n \in env.bad
    ELSE env.at > 0 /\ (n = env.at \/ (env.rest /\ n > env.at))

\* one request: a shell command ("sh"), a command run without a shell, a
\* path test or a file operation
Request(kind, cmd) == [kind |-> kind, cmd |-> cmd]

\* subprocess.getstatusoutput(cmd)
Sh(cmd) == Request("sh", cmd)

\* the run so far, after asking one more thing of the system
Ask(st, kind, cmd) == [st EXCEPT !.log = Append(@, Request(kind, cmd))]

\* the first request after the first `base` ones that fails (0: none)
FirstFail(env, base) ==
    IF env.at > base THEN env.at
    ELSE IF env.at > 0 /\ env.rest THEN base + 1
    ELSE 0

\* how many of n requests made after `base` earlier ones a loop makes when
\* it is left at the first failure (leave) or runs to its end
Made(env, base, n, leave) ==
    LET first == FirstFail(env, base)
    IN  IF leave /\ first # 0 /\ first <= base + n THEN first - base ELSE n

\* the run so far, after a loop over the requests rqs
AskLoop(env, st, rqs, leave) ==
    [st EXCEPT !.log =
         @ \o SubSeq(rqs, 1, Made(env, Len(@), Len(rqs), leave))]

\* the answer to the last request
LastOk(env, st) == ~Fails(env, Len(st.log))

\* a shell command's exit status
Status(ok) == IF ok THEN "0" ELSE "1"

\* Python truth of a returned status
Truthy(r) == r \notin {"None", "0", "False"}

\* the run so far, the current function returning r
Return(st, r) == [st EXCEPT !.ret = r]

\* a loop of status-checked commands: `if status: if FORCE == 0: return
\* status`; ret is "None" when the loop ran to its end
CheckedLoop(env, st, force, rqs) ==
    LET s1 == AskLoop(env, st, rqs, force = 0)
    IN  IF Len(rqs) > 0 /\ ~LastOk(env, s1) /\ force = 0
        THEN Return(s1, Status(FALSE))
        ELSE Return(s1, "None")

\* a run that has asked nothing yet
NewRun == [log |-> <<>>, ret |-> "None", exc |-> ""]

RECURSIVE Join(_)
\* " ".join(tokens)
Join(tokens) ==
    IF Len(tokens) = 0 THEN ""
    ELSE IF Len(tokens) = 1 THEN tokens[1]
    ELSE tokens[1] \o " " \o Join(Tail(tokens))

\* log_os_system(cmd, show) / subprocess.getstatusoutput(cmd)
log_os_system(st, cmd) == Ask(st, "sh", cmd)

(***************************************************************************)
(* init_ipmi                                                               *)
(***************************************************************************)
ipmi_ko == << <<"modprobe", "ipmi_msghandler">>,
              <<"modprobe", "ipmi_ssif">>,
              <<"modprobe", "ipmi_si">>,
              <<"modprobe", "ipmi_devintf">> >>

ATTEMPTS == 5

\* s.replace("modprobe", "modprobe -rq").split(" ")
ModprobeRq(tokens) ==
    IF tokens[1] = "modprobe" THEN <<"modprobe", "-rq">> \o Tail(tokens)
    ELSE tokens

\* for i in range(0, len(ipmi_ko)): getstatusoutput(ipmi_ko[i])
LoadIpmi == [i \in 1..Len(ipmi_ko) |-> Sh(Join(ipmi_ko[i]))]

\* for i in reversed(range(0, len(ipmi_ko))): getstatusoutput(rm)
UnloadIpmi ==
    [i \in 1..Len(ipmi_ko) |->
         Sh(Join(ModprobeRq(ipmi_ko[Len(ipmi_ko) + 1 - i])))]

\* os.path.exists('/dev/ipmi0') or os.path.exists('/dev/ipmidev/0')
IpmiDevExists(env, st) ==
    LET s1 == Ask(st, "exists", "/dev/ipmi0")
    IN  IF LastOk(env, s1) THEN s1 ELSE Ask(s1, "exists", "/dev/ipmidev/0")

RECURSIVE init_ipmi_dev_intf(_, _, _)
\* the while loop of init_ipmi_dev_intf with `attempts` left; ret is the
\* returned status
init_ipmi_dev_intf(env, st, attempts) ==
    IF attempts = 0 THEN Return(st, "1")
    ELSE LET s1 == IpmiDevExists(env, AskLoop(env, st, LoadIpmi, FALSE))
         IN  IF LastOk(env, s1) THEN Return(s1, "0")
             ELSE init_ipmi_dev_intf(env,
                                     AskLoop(env, s1, UnloadIpmi, FALSE),
                                     attempts - 1)

RECURSIVE init_ipmi_oem_cmd(_, _, _)
\* the while loop of init_ipmi_oem_cmd with `attempts` left
init_ipmi_oem_cmd(env, st, attempts) ==
    IF attempts = 0 THEN Return(st, "1")
    ELSE LET s1 == log_os_system(st, "ipmitool raw 0x34 0x95")
         IN  IF ~LastOk(env, s1) THEN init_ipmi_oem_cmd(env, s1, attempts - 1)
             ELSE Return(s1, "0")

\* init_ipmi giving up after its first failed attempt
init_ipmi_Once(env, st, attempts) ==
    IF attempts = 0 THEN Return(st, "1")
    ELSE LET s1 == init_ipmi_dev_intf(env, st, ATTEMPTS)
         IN  IF Truthy(s1.ret) THEN Return(s1, "1")
             ELSE init_ipmi_oem_cmd(env, s1, ATTEMPTS)

RECURSIVE init_ipmi(_, _, _)
\* the while loop of init_ipmi with `attempts` left
init_ipmi(env, st, attempts) ==
    IF attempts = 0 THEN Return(st, "1")
    ELSE LET s1 == init_ipmi_dev_intf(env, st, ATTEMPTS)
         IN  IF Truthy(s1.ret) THEN init_ipmi(env, s1, attempts - 1)
             ELSE LET s2 == init_ipmi_oem_cmd(env, s1, ATTEMPTS)
                  IN  IF Truthy(s2.ret) THEN init_ipmi(env, s2, attempts - 1)
                      ELSE Return(s2, "0")

\* the requests of an init_ipmi that never finds the device
IpmiRequests == ATTEMPTS * ATTEMPTS * (2 * Len(ipmi_ko) + 2)

\* the latest request of the wait that succeeds among failing ones, and how
\* far behind it a second one does
MaxHole == 56
MaxGap == 6

\* the answers to a boot-time wait: the first u requests fail but for the
\* p-th and the q-th
IpmiFaults ==
    UNION {{[bad |-> (1..u) \ {p, q}] :
                q \in p..(p + MaxGap),
                u \in (p..(MaxHole + MaxGap)) \cup {IpmiRequests}} :
           p \in 0..MaxHole}

(***************************************************************************)
(* driver_check / driver_install / driver_uninstall                        *)
(***************************************************************************)
kos == << <<"modprobe", "i2c_dev">>,
          <<"modprobe", "i2c_i801">>,
          <<"modprobe", "i2c_ismt">>,
          <<"modprobe", "optoe">>,
          <<"modprobe", "at24">>,
          <<"modprobe", "i2c-ocores">>,
          <<"modprobe", "accton_as9817_32_fpga">>,
          <<"modprobe", "accton_as9817_32_fan">>,
          <<"modprobe", "accton_as9817_32_psu">>,
          <<"modprobe", "accton_as9817_32_thermal">>,
          <<"modprobe", "accton_as9817_32_sys">>,
          <<"modprobe", "accton_as9817_32_leds">>,
          <<"modprobe", "accton_as9817_32_mux">> >>

\* driver_check: ret is "True" when the ls found accton modules
driver_check(st, present) ==
    Return(log_os_system(st, "ls /sys/module/*accton*"),
           IF present THEN "True" ELSE "False")

\* for i in range(0, len(kos)) of driver_install
LoadKos == [i \in 1..Len(kos) |-> Sh(Join(kos[i]))]

driver_install(env, st, force) ==
    LET s1 == log_os_system(st, "modprobe ice")
    IN  IF ~LastOk(env, s1) /\ force = 0 THEN Return(s1, Status(FALSE))
        ELSE LET s2 == init_ipmi(env, s1, ATTEMPTS)
             IN  IF Truthy(s2.ret) /\ force = 0 THEN s2
                 ELSE LET s3 == CheckedLoop(env,
                                    log_os_system(s2, "depmod -ae"),
                                    force, LoadKos)
                      IN  IF Truthy(s3.ret) THEN s3 ELSE Return(s3, "0")

\* rm = kos[-(i+1)].replace("modprobe", "modprobe -rq"), then split(" ") and
\* del lst[3] when len(lst) > 3
RemoveCommand(tokens) ==
    LET lst == ModprobeRq(tokens)
    IN  IF Len(lst) > 3
        THEN SubSeq(lst, 1, 3) \o SubSeq(lst, 5, Len(lst))
        ELSE lst

\* the modules removed in the order they were loaded
UnloadKos_ListOrder == [i \in 1..Len(kos) |-> Sh(Join(RemoveCommand(kos[i])))]

\* for i in range(0, len(kos)) of driver_uninstall
UnloadKos ==
    [i \in 1..Len(kos) |-> Sh(Join(RemoveCommand(kos[Len(kos) + 1 - i])))]

driver_uninstall(env, st, force) ==
    LET s1 == CheckedLoop(env, st, force, UnloadKos)
    IN  IF Truthy(s1.ret) THEN s1 ELSE Return(s1, "0")

(***************************************************************************)
(* Retimer (DS250DF810) configuration                                      *)
(***************************************************************************)
CPU == 0
FRONT == 1
S_10G == 2
S_25G == 3
TI_MUX_I2C_BUS == "42"
TI_MUX_I2C_ADDR == "0x1b"

HexDigits == <<"0", "1", "2", "3", "4", "5", "6", "7",
               "8", "9", "a", "b", "c", "d", "e", "f">>

\* f"0x{v:02x}" for 0 <= v < 256
Hex2(v) == "0x" \o HexDigits[(v \div 16) + 1] \o HexDigits[(v % 16) + 1]

\* ' '.join(cmd) of set_i2c_register
I2cSet(bus, device, register, value) ==
    "/usr/sbin/i2cset -f -y " \o bus \o " " \o device
        \o " " \o register \o " " \o value

\* set_i2c_register that returns True whatever the status
set_i2c_register_True(env, st, bus, device, register, value) ==
    Return(log_os_system(st, I2cSet(bus, device, register, value)), "True")

\* set_i2c_register: ret is "True" or "False"
set_i2c_register(env, st, bus, device, register, value) ==
    LET s1 == log_os_system(st, I2cSet(bus, device, register, value))
    IN  Return(s1, IF LastOk(env, s1) THEN "True" ELSE "False")

\* the i2cset commands that write register_values to the retimer
RetimerCommands(register_values) ==
    [i \in 1..Len(register_values) |->
         Sh(I2cSet(TI_MUX_I2C_BUS, TI_MUX_I2C_ADDR,
                   register_values[i][1], register_values[i][2]))]

\* the loop over register_values going on after a write that failed
WriteRegisters_GoOn(env, st, rqs) ==
    LET s1 == AskLoop(env, st, rqs, FALSE)
    IN  IF \E i \in (Len(st.log) + 1)..Len(s1.log) : Fails(env, i)
        THEN Return(s1, "False")
        ELSE Return(s1, "None")

\* for register, value in register_values: return False at the first write
\* that fails (rqs: the i2cset commands of register_values); ret is "None"
\* when the loop ran to its end
WriteRegisters(env, st, rqs) ==
    LET s1 == AskLoop(env, st, rqs, TRUE)
    IN  IF Len(rqs) > 0 /\ ~LastOk(env, s1) THEN Return(s1, "False")
        ELSE Return(s1, "None")

\* the register_values of df810_txfir_set(offset, pre, main, post)
TxfirRegisters(offset, pre, main, post) ==
    LET channel == 2 ^ offset
        main_sign == IF main > 0 THEN 128 ELSE 64
        pre_sign == IF pre <= 0 THEN 64 ELSE 0
        pre_val == IF pre <= 0 THEN -pre ELSE pre
        post_sign == IF post <= 0 THEN 64 ELSE 0
        post_val == IF post <= 0 THEN -post ELSE post
    IN  << <<"0xff", "0x01">>,
           <<"0xfc", Hex2(channel)>>,
           <<"0x3d", "0x80">>,
           <<"0x3d", "0x80">>,
           <<"0x3f", "0x40">>,
           <<"0x3e", "0x40">>,
           <<"0x3d", Hex2(BitOr(main, main_sign))>>,
           <<"0x3f", Hex2(BitOr(post_val, post_sign))>>,
           <<"0x3e", Hex2(BitOr(pre_val, pre_sign))>> >>

\* df810_txfir_set: ret is "False" after a failed write, else "None"
df810_txfir_set(env, st, offset, pre, main, post) ==
    WriteRegisters(env, st,
                   RetimerCommands(TxfirRegisters(offset, pre, main, post)))

\* the register_values of df810_cdr_bw_set(offset, param1, param2)
CdrBwRegisters(offset, param1, param2) ==
    << <<"0xff", "0x01">>,
       <<"0xfc", Hex2(2 ^ offset)>>,
       <<"0x1c", Hex2(param1)>>,
       <<"0x9e", Hex2(param2)>>,
       <<"0x9", "0x8">>,
       <<"0xa", "0x40">> >>

\* df810_cdr_bw_set: ret is "False" after a failed write, else "None"
df810_cdr_bw_set(env, st, offset, param1, param2) ==
    WriteRegisters(env, st,
                   RetimerCommands(CdrBwRegisters(offset, param1, param2)))

\* the per-channel register_values of df810_cross_point
CrossPointRegisters ==
    << <<"0x95", "0x08">>,
       <<"0x96", "0x00">>,
       <<"0x96", "0x04">>,
       <<"0x96", "0x04">>,
       <<"0x96", "0x06">>,
       <<"0x96", "0x06">>,
       <<"0x0a", "0x0c">>,
       <<"0x0a", "0x00">>,
       <<"0x79", "0x11">> >>

\* the writes of df810_cross_point in order: the page select, then for
\* offset in range(8) the channel select and the per-channel registers
CrossPointWrites ==
    LET per == Len(CrossPointRegisters) + 1
    IN  << <<"0xff", "0x01">> >> \o
        [k \in 1..(8 * per) |->
             IF (k - 1) % per = 0
             THEN <<"0xfc", Hex2(2 ^ ((k - 1) \div per))>>
             ELSE CrossPointRegisters[(k - 1) % per]]

\* the i2cset commands of df810_cross_point
CrossPointCommands == RetimerCommands(CrossPointWrites)

\* df810_cross_point: ret is "False" after a failed write, else "None"
df810_cross_point(env, st) ==
    WriteRegisters(env, st, CrossPointCommands)

\* the register_values of config_sfp for the speed
BaseRegisters(speed) ==
    << <<"0xfc", "0x01">>,
       <<"0xff", "0x03">>,
       <<"0x00", "0x04">>,
       <<"0x0a", "0x0c">>,
       IF speed = S_10G THEN <<"0x2f", "0x04">> ELSE <<"0x2f", "0x54">>,
       <<"0x31", "0x40">>,
       <<"0x1e", "0xe3">>,
       <<"0x0a", "0x00">> >>

\* the helper calls of config_sfp, whose results it drops
ConfigHelpers(env, st, dest, speed) ==
    IF dest = CPU
    THEN IF speed = S_10G
         THEN LET a == df810_txfir_set(env, st, 0, 0, 17, -2)
                  b == df810_txfir_set(env, a, 2, 0, 17, -2)
                  c == df810_txfir_set(env, b, 4, 0, 7, 0)
                  d == df810_txfir_set(env, c, 6, 0, 7, 0)
                  e == df810_cdr_bw_set(env, d, 4, 36, 252)
              IN  df810_cdr_bw_set(env, e, 6, 36, 252)
         ELSE st
    ELSE IF dest = FRONT
    THEN LET a == IF speed = S_10G
                  THEN df810_txfir_set(env,
                           df810_txfir_set(env, st, 1, 0, 15, -3),
                           3, 0, 15, -3)
                  ELSE IF speed = S_25G
                  THEN df810_txfir_set(env,
                           df810_txfir_set(env, st, 1, -8, 22, 0),
                           3, -8, 22, 0)
                  ELSE st
         IN  df810_cross_point(env, a)
    ELSE st

\* config_sfp: ret is "True" or "False"
config_sfp(env, st, dest, speed) ==
    LET s1 == set_i2c_register(env, st, TI_MUX_I2C_BUS, "0x72", "0x00", "0x01")
    IN  IF s1.ret # "True" THEN Return(s1, "False")
        ELSE LET s2 == WriteRegisters(env, s1,
                                   RetimerCommands(BaseRegisters(speed)))
             IN  IF s2.ret = "False" THEN s2
                 ELSE LET s3 == ConfigHelpers(env, s2, dest, speed)
                          s4 == set_i2c_register(env, s3, TI_MUX_I2C_BUS,
                                                 "0x72", "0x00", "0x00")
                      IN  IF s4.ret # "True" THEN Return(s4, "False")
                          ELSE Return(s4, "True")

\* do_sfp: the first of -c, -f10, -f25 that is given
do_sfp(env, st, cpu, front10, front25) ==
    IF cpu THEN Return(config_sfp(env, st, CPU, S_10G), "None")
    ELSE IF front10 THEN Return(config_sfp(env, st, FRONT, S_10G), "None")
    ELSE IF front25 THEN Return(config_sfp(env, st, FRONT, S_25G), "None")
    ELSE Return(st, "None")

(***************************************************************************)
(* device_install / device_uninstall / device_exist                        *)
(***************************************************************************)
i2c_prefix == "/sys/bus/i2c/devices/"

sfp_map == << 2,  3,  4,  5,  6,  7,  8,  9, 10, 11, 12, 13, 14, 15, 16, 17,
             18, 19, 20, 21, 22, 23, 24, 25, 26, 27, 28, 29, 30, 31, 32, 33,
             34, 35>>

osfp_end == 31

\* "/sys/bus/i2c/devices/i2c-" + str(bus) + "/" + file
I2cNode(bus, file) == i2c_prefix \o "i2c-" \o ToStr(bus) \o "/" \o file

mknod == << <<"echo", "as9817_32_mux", "0x78", ">", I2cNode(0, "new_device")>> >>

eeprom_mknod == << <<"echo", "24c02", "0x56", ">", I2cNode(36, "new_device")>> >>

mkfile == <<"/tmp/device_threshold.json", "/tmp/device_threshold.json.lock">>

\* the i2c buses the utility names
I2cBuses == 0..36

\* token.replace('new_device', 'delete_device')
ReplaceNewDevice(token) ==
    IF \E b \in I2cBuses : token = I2cNode(b, "new_device")
    THEN I2cNode(CHOOSE b \in I2cBuses : token = I2cNode(b, "new_device"),
                 "delete_device")
    ELSE token

\* temp = target.split(); del temp[1];
\* temp[-1] = temp[-1].replace('new_device', 'delete_device'); " ".join(temp)
DeleteCommand(target) ==
    LET temp == <<target[1]>> \o SubSeq(target, 3, Len(target))
    IN  Join(SubSeq(temp, 1, Len(temp) - 1)
             \o <<ReplaceNewDevice(temp[Len(temp)])>>)

\* device_exist: ret is "True" when both ls commands succeed
device_exist(st, ok1, ok2) ==
    Return(log_os_system(log_os_system(st, "ls " \o i2c_prefix \o "*0070"),
                         "ls " \o i2c_prefix \o "i2c-2"),
           IF ok1 /\ ok2 THEN "True" ELSE "False")

\* eeprom_check and the creation of the system EEPROM device
SystemEeprom(env, st) ==
    LET s1 == Ask(st, "noshell", "i2cget -f -y 36 0x56")
    IN  IF ~LastOk(env, s1) THEN s1
        ELSE LET s2 == log_os_system(s1, Join(eeprom_mknod[1]))
                 s3 == Ask(s2, "isfile",
                           "/sys/bus/i2c/devices/36-0056/eeprom")
             IN  IF ~LastOk(env, s3)
                 THEN log_os_system(s3,
                          "echo 0x56 > /sys/bus/i2c/devices/i2c-36/delete_device")
                 ELSE s3

\* for i in range(0, len(mknod)) of device_install
MakeNodes == [i \in 1..Len(mknod) |-> Sh(Join(mknod[i]))]

\* the loop over sfp_map testing i >= osfp_end
NewSfpDevices_OneEarly ==
    [k \in 1..Len(sfp_map) |->
         Sh("echo " \o (IF k - 1 >= osfp_end THEN "optoe2" ELSE "optoe3")
            \o " 0x50 > " \o I2cNode(sfp_map[k], "new_device"))]

\* for i in range(0, len(sfp_map)) of device_install
NewSfpDevices ==
    [k \in 1..Len(sfp_map) |->
         Sh("echo " \o (IF k - 1 > osfp_end THEN "optoe2" ELSE "optoe3")
            \o " 0x50 > " \o I2cNode(sfp_map[k], "new_device"))]

\* for i in range(0, osfp_end + 1): echo 0 > <node>_{i + 1}
EchoZero(node) ==
    [k \in 1..(osfp_end + 1) |->
         Sh("echo 0 > /sys/devices/platform/as9817_32_fpga/"
            \o node \o ToStr(k))]

ResetRelease == EchoZero("module_reset_")

LpModeDisable == EchoZero("module_lp_mode_")

RECURSIVE MakeFiles(_, _, _, _)
\* for i in range(0, len(mkfile)) of device_install, from i (1-based): the
\* try block, and the except block whose os.chmod may raise in its turn
MakeFiles(env, st, force, i) ==
    IF i > Len(mkfile) THEN Return(st, "None")
    ELSE LET s1 == Ask(st, "open", mkfile[i])
             s2 == IF LastOk(env, s1) THEN Ask(s1, "chmod", mkfile[i]) ELSE s1
         IN  IF LastOk(env, s2) THEN MakeFiles(env, s2, force, i + 1)
             ELSE LET s3 == Ask(s2, "chmod", mkfile[i])
                  IN  IF ~LastOk(env, s3) THEN [s3 EXCEPT !.exc = "OSError"]
                      ELSE IF force = 0 THEN Return(s3, "-1")
                      ELSE MakeFiles(env, s3, force, i + 1)

device_install(env, st, force) ==
    LET s1 == CheckedLoop(env, st, force, MakeNodes)
    IN  IF Truthy(s1.ret) THEN s1
        ELSE LET s2 == CheckedLoop(env, SystemEeprom(env, s1), force,
                                   NewSfpDevices)
             IN  IF Truthy(s2.ret) THEN s2
                 ELSE LET s3 == AskLoop(env, s2, ResetRelease, FALSE)
                          s4 == AskLoop(env, s3, LpModeDisable, FALSE)
                          s5 == config_sfp(env, s4, FRONT, S_25G)
                      IN  MakeFiles(env, s5, force, 1)

\* for i in range(0, len(sfp_map)) of device_uninstall
DeleteSfpDevices ==
    [k \in 1..Len(sfp_map) |->
         Sh("echo 0x50 > " \o I2cNode(sfp_map[k], "delete_device"))]

\* for i in range(len(mknod)) of device_uninstall: target = mknod[-(i+1)]
DeleteNodes ==
    [k \in 1..Len(mknod) |-> Sh(DeleteCommand(mknod[Len(mknod) + 1 - k]))]

\* for i in range(0, len(mkfile)) of device_uninstall
RemoveFiles == [i \in 1..Len(mkfile) |-> Sh("rm -f " \o mkfile[i])]

\* the 0x56 step of device_uninstall: `target` still holds the last mknod
\* entry of the loop before it unless the EEPROM file exists
DeleteSystemEeprom(env, st, force) ==
    LET s1 == Ask(st, "isfile", "/sys/bus/i2c/devices/36-0056/eeprom")
        target == IF LastOk(env, s1) THEN eeprom_mknod[1] ELSE mknod[1]
    IN  CheckedLoop(env, s1, force, <<Sh(DeleteCommand(target))>>)

device_uninstall(env, st, force) ==
    LET s1 == CheckedLoop(env, st, force, DeleteSfpDevices)
    IN  IF Truthy(s1.ret) THEN s1
        ELSE LET s2 == CheckedLoop(env, s1, force, DeleteNodes)
             IN  IF Truthy(s2.ret) THEN s2
                 ELSE LET s3 == DeleteSystemEeprom(env, s2, force)
                      IN  IF Truthy(s3.ret) THEN s3
                          ELSE CheckedLoop(env, s3, force, RemoveFiles)

(***************************************************************************)
(* do_install / do_uninstall                                               *)
(***************************************************************************)
FAN_PWM == 67

\* the fan PWM files glob.glob finds
MaxFanFiles == 2

RECURSIVE SetFanPwm(_, _, _)
\* for filename in glob.glob(...): write str(FAN_PWM), IOError passed over
SetFanPwm(env, st, i) ==
    IF i > MaxFanFiles THEN st
    ELSE SetFanPwm(env,
                   Ask(st, "write",
                       ToStr(FAN_PWM)
                       \o " > /sys/devices/platform/as9817_32_fan/hwmon/*/fan"
                       \o ToStr(i) \o "_pwm"),
                   i + 1)

PLATFORM_API2_WHL_FILE_PY3 == "sonic_platform-1.0-py3-none-any.whl"

SONIC_PLATFORM_BSP_WHL_PKG_PY3 ==
    "/usr/share/sonic/device/x86_64-accton_as9817_32o-r0/"
    \o PLATFORM_API2_WHL_FILE_PY3

PipShow == "pip3 show sonic-platform > /dev/null 2>&1"

PipInstall == "pip3 install " \o SONIC_PLATFORM_BSP_WHL_PKG_PY3

PipUninstall == "pip3 uninstall sonic-platform -y"

do_sonic_platform_install(env, st) ==
    LET s1 == log_os_system(st, PipShow)
    IN  IF LastOk(env, s1) THEN Return(s1, "None")
        ELSE LET s2 == Ask(s1, "exists", SONIC_PLATFORM_BSP_WHL_PKG_PY3)
             IN  IF ~LastOk(env, s2) THEN Return(s2, "None")
                 ELSE LET s3 == log_os_system(s2, PipInstall)
                      IN  IF ~LastOk(env, s3) THEN Return(s3, Status(FALSE))
                          ELSE Return(s3, "None")

do_sonic_platform_clean(env, st) ==
    LET s1 == log_os_system(st, PipShow)
    IN  IF ~LastOk(env, s1) THEN Return(s1, "None")
        ELSE LET s2 == log_os_system(s1, PipUninstall)
             IN  IF ~LastOk(env, s2) THEN Return(s2, Status(FALSE))
                 ELSE Return(s2, "None")

\* the state of the machine the utility runs on: accton modules loaded,
\* and what the two ls commands of device_exist find
Systems == [drivers : BOOLEAN, dev0070 : BOOLEAN, i2c2 : BOOLEAN]

LedLoc == "echo 0 > /sys/devices/platform/as9817_32_led/led_loc"

\* do_install after the driver stage
InstallDevices(env, st, force, sys) ==
    LET s1 == device_exist(st, sys.dev0070, sys.i2c2)
        s2 == IF s1.ret = "False" THEN device_install(env, s1, force)
              ELSE Return(s1, "None")
    IN  IF s2.exc # "" THEN s2
        ELSE IF s1.ret = "False" /\ Truthy(s2.ret) /\ force = 0 THEN s2
        ELSE LET s3 == log_os_system(s2, LedLoc)
                 s4 == SetFanPwm(env, s3, 1)
             IN  Return(do_sonic_platform_install(env, s4), "None")

\* do_install that installs the drivers whatever driver_check reports
do_install_Always(env, st, force, sys) ==
    LET s1 == driver_check(st, sys.drivers)
        s2 == driver_install(env, s1, force)
    IN  IF Truthy(s2.ret) /\ force = 0 THEN s2
        ELSE InstallDevices(env, s2, force, sys)

do_install(env, st, force, sys) ==
    LET s1 == driver_check(st, sys.drivers)
        s2 == IF s1.ret = "False" THEN driver_install(env, s1, force)
              ELSE Return(s1, "None")
    IN  IF s1.ret = "False" /\ Truthy(s2.ret) /\ force = 0 THEN s2
        ELSE InstallDevices(env, s2, force, sys)

\* do_uninstall after the device stage
UninstallDrivers(env, st, force, sys) ==
    LET s1 == driver_check(st, sys.drivers)
        s2 == IF s1.ret = "False" THEN Return(s1, "None")
              ELSE driver_uninstall(env, s1, force)
    IN  IF s1.ret # "False" /\ Truthy(s2.ret) /\ force = 0 THEN s2
        ELSE Return(do_sonic_platform_clean(env, s2), "None")

do_uninstall(env, st, force, sys) ==
    LET s1 == device_exist(st, sys.dev0070, sys.i2c2)
        s2 == IF s1.ret = "False" THEN Return(s1, "None")
              ELSE device_uninstall(env, s1, force)
    IN  IF s1.ret # "False" /\ Truthy(s2.ret) /\ force = 0 THEN s2
        ELSE UninstallDrivers(env, s2, force, sys)

(***************************************************************************)
(* Thermal thresholds: restricted_float / get_high_threshold /             *)
(* get_high_crit_threshold / do_threshold                                  *)
(***************************************************************************)
\* degrees Celsius
THRESHOLD_RANGE_LOW == 30
THRESHOLD_RANGE_HIGH == 110

\* args.high_threshold / args.high_crit_threshold is None
NoArg == -1

\* what follows -ht or -hct and is no number: float() raises ValueError
NotANumber == -2

\* the argument 'nan': float() gives the float that compares False with
\* every float
NaN == -3

\* a < b and a <= b on floats
FloatLess(a, b) == a # NaN /\ b # NaN /\ a < b

\* a <= b taken for a < b
FloatLessEq_Strict(a, b) == a # NaN /\ b # NaN /\ a < b

FloatLessEq(a, b) == a # NaN /\ b # NaN /\ a <= b

\* restricted_float: TRUE when x is returned, FALSE when ArgumentTypeError
\* is raised
restricted_float(x) ==
    IF x = NotANumber THEN FALSE
    ELSE ~(FloatLess(x, THRESHOLD_RANGE_LOW)
               \/ FloatLess(THRESHOLD_RANGE_HIGH, x))

\* the values a threshold is given
Thresholds == {THRESHOLD_RANGE_LOW,
               (THRESHOLD_RANGE_LOW + THRESHOLD_RANGE_HIGH) \div 2,
               THRESHOLD_RANGE_HIGH}

\* what follows -ht or -hct on the command line
ArgValues == {NoArg, THRESHOLD_RANGE_LOW - 1, THRESHOLD_RANGE_HIGH + 1,
              NotANumber, NaN}
                 \cup Thresholds

\* args.thermal
ThermalNames == {"None", "Temp sensor 1"}

\* the thermal's thresholds in the platform daemon
Thermals == [high : Thresholds, crit : Thresholds]

\* what `docker exec pmon python3 -c <get code>` comes back with: status 0
\* and the value, status 1 (thermal not found, method not implemented), or
\* anything float() cannot read
ReadOutcomes == {"value", "status1", "garbage"}

\* what a setter of the thermal does: sets, returns False, or raises
\* NotImplementedError
SetOutcomes == {"ok", "False", "NotImplementedError"}

ThresholdEnvs == [read_crit : ReadOutcomes, read_high : ReadOutcomes,
                  set_high : SetOutcomes, set_crit : SetOutcomes]

\* the answers of a run that asks nothing
NoAnswers == [read_crit |-> "value", read_high |-> "value",
              set_high |-> "ok", set_crit |-> "ok"]

\* every read coming back as None
ReadResult_AlwaysNone(outcome, current) == [kind |-> "None", v |-> NoArg]

\* `if status == 1: return None` / `return float(output)`
ReadResult(outcome, current) ==
    IF outcome = "status1" THEN [kind |-> "None", v |-> NoArg]
    ELSE IF outcome = "value" THEN [kind |-> "float", v |-> current]
    ELSE [kind |-> "ValueError", v |-> NoArg]

get_high_threshold(sensor, outcome) == ReadResult(outcome, sensor.high)

get_high_crit_threshold(sensor, outcome) == ReadResult(outcome, sensor.crit)

\* one docker exec of the utility: what it asks, and the setters it carries
Docker(op, script) == [op |-> op, script |-> script]

Setter(op, v) == [op |-> op, v |-> v]

RECURSIVE RunScript(_, _, _, _)
\* set_threshold_code in the platform daemon, from its i-th setter: a
\* setter returning False is exit(1), NotImplementedError is printed; the
\* value was written into the code by str.format, and `nan` is a name the
\* script does not define (NameError ends it)
RunScript(sensor, script, env, i) ==
    IF i > Len(script) THEN sensor
    ELSE LET high == script[i].op = "set_high_threshold"
             outcome == IF high THEN env.set_high ELSE env.set_crit
         IN  IF script[i].v = NaN THEN sensor
             ELSE IF outcome = "False" THEN sensor
             ELSE IF outcome = "NotImplementedError"
             THEN RunScript(sensor, script, env, i + 1)
             ELSE IF high
             THEN RunScript([sensor EXCEPT !.high = script[i].v],
                            script, env, i + 1)
             ELSE RunScript([sensor EXCEPT !.crit = script[i].v],
                            script, env, i + 1)

\* how a run of the threshold command ends: exit code, uncaught exception,
\* the docker execs made, the thermal afterwards
Done(exit, exc, io, sensor) ==
    [exit |-> exit, exc |-> exc, io |-> io, thermal |-> sensor]

do_threshold(args, sensor, env) ==
    LET ht == args.high_threshold
        hct == args.high_crit_threshold
        high_crit == get_high_crit_threshold(sensor, env.read_crit)
        high == get_high_threshold(sensor, env.read_high)
        io1 == IF ht # NoArg
               THEN <<Docker("get_high_critical_threshold", <<>>)>>
               ELSE <<>>
        io2 == IF hct # NoArg
               THEN Append(io1, Docker("get_high_threshold", <<>>))
               ELSE io1
        set_threshold_code ==
            (IF ht # NoArg
             THEN <<Setter("set_high_threshold", ht)>> ELSE <<>>)
            \o (IF hct # NoArg
                THEN <<Setter("set_high_critical_threshold", hct)>> ELSE <<>>)
    IN  IF args.list
        THEN Done(0, "", <<Docker("avaliable_thermals", <<>>)>>, sensor)
        ELSE IF args.thermal = "None" THEN Done(0, "", <<>>, sensor)
        ELSE IF ht # NoArg /\ hct # NoArg /\ FloatLessEq(hct, ht)
        THEN Done(1, "", <<>>, sensor)
        ELSE IF ht # NoArg /\ high_crit.kind = "ValueError"
        THEN Done(1, "ValueError", io1, sensor)
        ELSE IF ht # NoArg /\ high_crit.kind = "float"
                /\ FloatLessEq(high_crit.v, ht)
        THEN Done(1, "", io1, sensor)
        ELSE IF hct # NoArg /\ high.kind = "ValueError"
        THEN Done(1, "ValueError", io2, sensor)
        ELSE IF hct # NoArg /\ high.kind = "float"
                /\ FloatLessEq(hct, high.v)
        THEN Done(1, "", io2, sensor)
        ELSE IF set_threshold_code = <<>> THEN Done(0, "", io2, sensor)
        ELSE Done(0, "", Append(io2, Docker("set", set_threshold_code)),
                  RunScript(sensor, set_threshold_code, env, 1))

\* the answers a run did not ask for are left at their first value
Asked(io, op) == \E i \in 1..Len(io) : io[i].op = op

AskedOnly(env, io) ==
    /\ Asked(io, "get_high_critical_threshold") \/ env.read_crit = "value"
    /\ Asked(io, "get_high_threshold") \/ env.read_high = "value"
    /\ \/ \E i \in 1..Len(io) :
              \E j \in 1..Len(io[i].script) :
                  io[i].script[j].op = "set_high_threshold"
       \/ env.set_high = "ok"
    /\ \/ \E i \in 1..Len(io) :
              \E j \in 1..Len(io[i].script) :
                  io[i].script[j].op = "set_high_critical_threshold"
       \/ env.set_crit = "ok"

(***************************************************************************)
(* main                                                                    *)
(***************************************************************************)
\* main: FORCE = 1 whatever args.force is
ForceOfArgs(force) == 1

\* what a run leaves: the command, its arguments, the machine, the log and
\* how it ended
RunOf(cmd, args, sys, env, st) ==
    [cmd |-> cmd, args |-> args, sys |-> sys, env |-> env,
     log |-> st.log, ret |-> st.ret, exc |-> st.exc]

\* `accton_as9817_32o_util.py [-f] install`
MainInstall ==
    /\ run.cmd = ""
    /\ \E force \in BOOLEAN, sys \in Systems, env \in Faults :
           /\ FORCE' = ForceOfArgs(force)
           /\ run' = RunOf("install", [force |-> force], sys, env,
                           do_install(env, NewRun, FORCE', sys))
    /\ UNCHANGED <<sfpVars, thermal>>

\* `accton_as9817_32o_util.py [-f] clean`
MainClean ==
    /\ run.cmd = ""
    /\ \E force \in BOOLEAN, sys \in Systems, env \in Faults :
           /\ FORCE' = ForceOfArgs(force)
           /\ run' = RunOf("clean", [force |-> force], sys, env,
                           do_uninstall(env, NewRun, FORCE', sys))
    /\ UNCHANGED <<sfpVars, thermal>>

\* the boot-time wait of driver_install on its own: init_ipmi()
InitIpmi ==
    /\ run.cmd = ""
    /\ \E env \in IpmiFaults :
           run' = RunOf("init_ipmi", <<>>, NotRun.sys, env,
                        init_ipmi(env, NewRun, ATTEMPTS))
    /\ UNCHANGED <<sfpVars, FORCE, thermal>>

\* `accton_as9817_32o_util.py sfp [-c] [-f10] [-f25]`
MainSfp ==
    /\ run.cmd = ""
    /\ \E cpu \in BOOLEAN, front10 \in BOOLEAN, front25 \in BOOLEAN,
          env \in Faults :
           /\ FORCE' = ForceOfArgs(FALSE)
           /\ run' = RunOf("sfp",
                           [cpu |-> cpu, front10 |-> front10,
                            front25 |-> front25],
                           NotRun.sys, env,
                           do_sfp(env, NewRun, cpu, front10, front25))
    /\ UNCHANGED <<sfpVars, thermal>>

\* a call of config_sfp(dest, speed)
ConfigSfp ==
    /\ run.cmd = ""
    /\ \E dest \in {CPU, FRONT}, speed \in {S_10G, S_25G}, env \in Faults :
           run' = RunOf("config_sfp", [dest |-> dest, speed |-> speed],
                        NotRun.sys, env, config_sfp(env, NewRun, dest, speed))
    /\ UNCHANGED <<sfpVars, FORCE, thermal>>

\* the arguments config_sfp gives df810_txfir_set: <<pre, main, post>>
TxfirTaps == {<<0, 17, -2>>, <<0, 7, 0>>, <<0, 15, -3>>, <<-8, 22, 0>>}

\* the answers to a helper of at most n writes
FaultsWithin(n) == {f \in Faults : f.at <= n}

\* a call of df810_txfir_set(offset, pre, main, post)
TxfirSet ==
    /\ run.cmd = ""
    /\ \E offset \in 0..7, taps \in TxfirTaps, env \in FaultsWithin(10) :
           run' = RunOf("df810_txfir_set",
                        [offset |-> offset, pre |-> taps[1],
                         main |-> taps[2], post |-> taps[3]],
                        NotRun.sys, env,
                        df810_txfir_set(env, NewRun, offset,
                                        taps[1], taps[2], taps[3]))
    /\ UNCHANGED <<sfpVars, FORCE, thermal>>

\* a call of df810_cdr_bw_set(offset, 0x24, 0xfc)
CdrBwSet ==
    /\ run.cmd = ""
    /\ \E offset \in 0..7, env \in FaultsWithin(7) :
           run' = RunOf("df810_cdr_bw_set",
                        [offset |-> offset, param1 |-> 36, param2 |-> 252],
                        NotRun.sys, env,
                        df810_cdr_bw_set(env, NewRun, offset, 36, 252))
    /\ UNCHANGED <<sfpVars, FORCE, thermal>>

\* a call of df810_cross_point()
CrossPoint ==
    /\ run.cmd = ""
    /\ \E env \in FaultsWithin(Len(CrossPointCommands) + 1) :
           run' = RunOf("df810_cross_point", <<>>, NotRun.sys, env,
                        df810_cross_point(env, NewRun))
    /\ UNCHANGED <<sfpVars, FORCE, thermal>>

\* `accton_as9817_32o_util.py threshold [-l] [-t NAME] [-ht V] [-hct V]`:
\* argparse leaves with status 2 when restricted_float refuses a value
MainThreshold ==
    /\ run.cmd = ""
    /\ \E list \in BOOLEAN, name \in ThermalNames,
          ht \in ArgValues, hct \in ArgValues :
      LET args == [list |-> list, thermal |-> name,
                   high_threshold |-> ht, high_crit_threshold |-> hct]
          parsed == /\ ht = NoArg \/ restricted_float(ht)
                    /\ hct = NoArg \/ restricted_float(hct)
      IN  \E env \in IF parsed /\ ~list /\ name # "None"
                     THEN ThresholdEnvs ELSE {NoAnswers} :
        LET r == IF parsed THEN do_threshold(args, thermal, env)
                 ELSE Done(2, "ArgumentTypeError", <<>>, thermal)
        IN  /\ AskedOnly(env, r.io)
            /\ FORCE' = IF parsed THEN ForceOfArgs(FALSE) ELSE FORCE
            /\ thermal' = r.thermal
            /\ run' = [cmd |-> "threshold", args |-> args, env |-> env,
                       before |-> thermal, io |-> r.io, exit |-> r.exit,
                       exc |-> r.exc]
            /\ UNCHANGED sfpVars

\* the utility's process ends: nothing of the run is left but the thermal's
\* thresholds in the platform daemon; the next process loads the module anew
Exit ==
    /\ run.cmd = "threshold"
    /\ run' = NotRun
    /\ FORCE' = 0
    /\ UNCHANGED <<sfpVars, thermal>>

\* one call of the retimer configuration or of one of its helpers
SpecRetimer ==
    InitIdle({[high |-> 30, crit |-> 110]})
        /\ [][ConfigSfp \/ MainSfp \/ TxfirSet \/ CdrBwSet \/ CrossPoint]_vars

\* one run of install or clean, or of the boot-time wait alone
SpecInstall ==
    InitIdle({[high |-> 30, crit |-> 110]})
        /\ [][MainInstall \/ MainClean \/ InitIpmi]_vars

\* the threshold command run again and again on a thermal that starts with
\* its high threshold below its high-critical threshold
SpecThreshold ==
    InitIdle({t \in Thermals : t.high < t.crit})
        /\ [][MainThreshold \/ Exit]_vars

(***************************************************************************)
(* Properties of the Sfp object                                            *)
(***************************************************************************)
\* the accesses of the last call that write a sysfs node or call the API
Touches == {i \in 1..Len(call.io) : call.io[i].kind \in {"write", "api"}}

\* the module was seen present by the last call
SeenPresent == call.pres = "1"

\* C1: __get_error_description gives 'Unplugged' for an absent module, the
\* checksum message alone for a present module with only a bad checksum, and
\* the checksum message, '|' and the high-temperature description, in that
\* order, for a present module with a bad checksum and over-temperature.
C1_ErrorAggregation ==
    call.op = "__get_error_description" =>
        LET e == call.input.err_eeprom
            hot == ~validate_temperature(call.input.temperature,
                                         call.input.threshold_dict)
        IN  /\ ~SeenPresent => call.ret = "Unplugged"
            /\ (SeenPresent /\ e # "" /\ ~hot) => call.ret = e
            /\ (SeenPresent /\ e # "" /\ hot) =>
                   call.ret = e \o "|" \o "High temperature"

C4_Lpmode ==
    /\ (call.op = "set_lpmode" /\ port_num > 32) =>
           (call.ret = "False" /\ Touches = {})
    /\ (call.op = "set_lpmode" /\ port_num \in 1..32 /\ SeenPresent
            /\ sfp_type \in {"SFP", "QSFP"}) =>
           /\ Len(call.io) = 2
           /\ call.io[2] =
                  [kind |-> "write",
                   target |-> "/sys/devices/platform/as9817_32_fpga/"
                              \o "module_lp_mode_" \o ToStr(port_num),
                   value |-> IF call.arg = "True" THEN "1" ELSE "0"]
           /\ call.input.wr = "True" => call.ret = "True"
    /\ (call.op = "get_lpmode" /\ port_num > 32) =>
           (call.ret = "False" /\ call.io = <<>>)

\* C4: set_lpmode ran on port 33 with the module present and refused
C4_Witness ==
    /\ call.op = "set_lpmode"
    /\ port_num = 33
    /\ SeenPresent
    /\ call.ret = "False"

\* C6: get_eeprom_path on port p in 1..34 gives
\* '/sys/bus/i2c/devices/<p+1>-0050/eeprom', the port-to-bus map being
\* injective; on any other port it gives no path.
C6_EepromPath ==
    /\ call.op = "get_eeprom_path" =>
           IF port_num \in 1..34
           THEN call.ret = "/sys/bus/i2c/devices/" \o ToStr(port_num + 1)
                           \o "-0050/eeprom"
           ELSE call.ret = "KeyError"
    /\ \A a, b \in DOMAIN port_to_i2c_mapping :
           port_to_i2c_mapping[a] = port_to_i2c_mapping[b] => a = b

\* C6: get_eeprom_path ran on the last port and gave the path on bus 35
C6_Witness ==
    /\ call.op = "get_eeprom_path"
    /\ port_num = 34
    /\ call.ret = "/sys/bus/i2c/devices/35-0050/eeprom"

\* the last call ran update_sfp_type (the constructor runs it once)
RanUpdate == call.op \in {"__init__", "update_sfp_type"}

\* the last call read the first EEPROM byte
ReadEeprom == \E i \in 1..Len(call.io) :
                  call.io[i].target = "/sys/bus/i2c/devices/"
                      \o ToStr(port_num + 1) \o "-0050/eeprom"

\* C5: for a present module whose first EEPROM byte b was read, the status
\* and the type depend on b alone: 0x03, 0x0b give SFP; 0x0c, 0x0d, 0x11,
\* 0xe1 give QSFP; 0x18, 0x1e give QSFP_DD; 0x19 gives OSFP, each with
\* 'Done'; every other byte gives 'unknow sfp ID'. The four code lists are
\* pairwise disjoint.
C5_Classification ==
    /\ (RanUpdate /\ SeenPresent /\ ReadEeprom /\ call.input \in 0..255) =>
           LET b == call.input
           IN  /\ b \in {3, 11} => (sfp_type = "SFP" /\ call.ret = "Done")
               /\ b \in {12, 13, 17, 225} =>
                      (sfp_type = "QSFP" /\ call.ret = "Done")
               /\ b \in {24, 30} =>
                      (sfp_type = "QSFP_DD" /\ call.ret = "Done")
               /\ b = 25 => (sfp_type = "OSFP" /\ call.ret = "Done")
               /\ b \notin {3, 11, 12, 13, 17, 225, 24, 30, 25} =>
                      call.ret = "unknow sfp ID"
    /\ SFP_TYPE_CODE_LIST \cap QSFP_TYPE_CODE_LIST = {}
    /\ SFP_TYPE_CODE_LIST \cap QSFP_DD_TYPE_CODE_LIST = {}
    /\ SFP_TYPE_CODE_LIST \cap OSFP_TYPE_CODE_LIST = {}
    /\ QSFP_TYPE_CODE_LIST \cap QSFP_DD_TYPE_CODE_LIST = {}
    /\ QSFP_TYPE_CODE_LIST \cap OSFP_TYPE_CODE_LIST = {}
    /\ QSFP_DD_TYPE_CODE_LIST \cap OSFP_TYPE_CODE_LIST = {}

\* C5: update_sfp_type read 0x1e from a module that was an SFP before
C5_Witness ==
    /\ call.op = "update_sfp_type"
    /\ call.input = 30
    /\ call.type_before = "SFP"
    /\ sfp_type = "QSFP_DD"
    /\ call.ret = "Done"

\* C7: update_sfp_type returns 'eeprom not ready', raising nothing and
\* leaving sfp_type as it was, whenever the module is absent or the read of
\* the first EEPROM byte returns no data.
C7_NotReady ==
    (call.op = "update_sfp_type"
        /\ (~SeenPresent \/ (ReadEeprom /\ call.input = NoData))) =>
        (call.ret = "eeprom not ready" /\ sfp_type = call.type_before)

\* C7: update_sfp_type found an OSFP module's EEPROM giving no data
C7_Witness ==
    /\ call.op = "update_sfp_type"
    /\ SeenPresent
    /\ ReadEeprom
    /\ call.input = NoData
    /\ call.type_before = "OSFP"
    /\ call.ret = "eeprom not ready"

(***************************************************************************)
(* Properties of the installer utility                                     *)
(***************************************************************************)
\* the run made the request
Ran(rq) == \E i \in 1..Len(run.log) : run.log[i] = rq

\* the run made every request of the sequence
RanAll(rqs) == \A k \in 1..Len(rqs) : Ran(rqs[k])

\* the i-th request of the run failed
Failed(i) ==
    IF run.log[i].cmd = "ls /sys/module/*accton*" THEN ~run.sys.drivers
    ELSE IF run.log[i].cmd = "ls " \o i2c_prefix \o "*0070"
    THEN ~run.sys.dev0070
    ELSE IF run.log[i].cmd = "ls " \o i2c_prefix \o "i2c-2"
    THEN ~run.sys.i2c2
    ELSE Fails(run.env, i)

\* the writes of config_sfp(dest, speed) when none fails
AllWrites(dest, speed) ==
    config_sfp([at |-> 0, rest |-> FALSE], NewRun, dest, speed).log

\* C2: in every mode of config_sfp and whichever i2c write is the first to
\* fail, the writes before it are issued in the fixed order, no write of
\* the configuration follows the failed one, and config_sfp returns False.
C2_AbortOnFirstFailure ==
    run.cmd = "config_sfp" =>
        /\ \A i \in 1..Len(run.log) :
               /\ i <= Len(AllWrites(run.args.dest, run.args.speed))
               /\ run.log[i] = AllWrites(run.args.dest, run.args.speed)[i]
        /\ \A i \in 1..Len(run.log) :
               Failed(i) => (i = Len(run.log) /\ run.ret = "False")

\* the commands whose exit status driver_install, device_install,
\* device_uninstall and driver_uninstall test against FORCE
StatusChecked ==
    {Sh("modprobe ice"), Sh(DeleteCommand(eeprom_mknod[1]))}
        \cup {LoadKos[k] : k \in 1..Len(LoadKos)}
        \cup {UnloadKos[k] : k \in 1..Len(UnloadKos)}
        \cup {MakeNodes[k] : k \in 1..Len(MakeNodes)}
        \cup {NewSfpDevices[k] : k \in 1..Len(NewSfpDevices)}
        \cup {DeleteSfpDevices[k] : k \in 1..Len(DeleteSfpDevices)}
        \cup {DeleteNodes[k] : k \in 1..Len(DeleteNodes)}
        \cup {RemoveFiles[k] : k \in 1..Len(RemoveFiles)}

\* C8: install or clean without -f runs with force mode off: the first
\* failing step of driver_install, device_install, device_uninstall or
\* driver_uninstall is the last command of the run.
C8_NoForceStops ==
    (run.cmd \in {"install", "clean"} /\ ~run.args.force) =>
        /\ FORCE = 0
        /\ \A i \in 1..Len(run.log) :
               (run.log[i] \in StatusChecked /\ Failed(i))
                   => i = Len(run.log)

\* C9: with the force flag set, install and clean attempt every command of
\* the stages they enter whatever fails, and run their remaining stages up
\* to the sonic_platform wheel install / clean.
C9_ForceContinues ==
    (run.cmd \in {"install", "clean"} /\ run.args.force) =>
        /\ (run.cmd = "install" /\ ~run.sys.drivers)
               => /\ Ran(Sh("modprobe ice"))
                  /\ Ran(Sh("depmod -ae"))
                  /\ RanAll(LoadKos)
        /\ (run.cmd = "install" /\ ~(run.sys.dev0070 /\ run.sys.i2c2))
               => RanAll(MakeNodes) /\ RanAll(NewSfpDevices)
        /\ run.cmd = "install" => Ran(Sh(LedLoc)) /\ Ran(Sh(PipShow))
        /\ (run.cmd = "clean" /\ run.sys.dev0070 /\ run.sys.i2c2)
               => /\ RanAll(DeleteSfpDevices)
                  /\ RanAll(DeleteNodes)
                  /\ RanAll(RemoveFiles)
        /\ (run.cmd = "clean" /\ run.sys.drivers) => RanAll(UnloadKos)
        /\ run.cmd = "clean" => Ran(Sh(PipShow))

\* do_threshold was entered: argparse accepted the command line
RanThreshold == run.cmd = "threshold" /\ run.exc # "ArgumentTypeError"

\* the requested thresholds are out of order among themselves or against
\* the thermal's current values as read back
InvalidOrdering ==
    LET ht == run.args.high_threshold
        hct == run.args.high_crit_threshold
    IN  \/ ht # NoArg /\ hct # NoArg /\ FloatLessEq(hct, ht)
        \/ /\ ht # NoArg
           /\ run.env.read_crit = "value"
           /\ FloatLessEq(run.before.crit, ht)
        \/ /\ hct # NoArg
           /\ run.env.read_high = "value"
           /\ FloatLessEq(hct, run.before.high)

\* the run sent a set-threshold script to the platform daemon
SentSet == Asked(run.io, "set")

\* C10 as stated: do_threshold exits with code 1 and sends no set-threshold
\* command whenever the threshold ordering is invalid.
C10_InvalidOrderingAsStated ==
    (RanThreshold /\ InvalidOrdering) => (run.exit = 1 /\ ~SentSet)

\* C10: when a thermal is named with -t and -l is not given, do_threshold
\* exits with code 1 and sends no set-threshold command whenever the
\* threshold ordering is invalid; with -l or without -t it returns with
\* code 0 before any ordering check, sending no set-threshold command.
C10_InvalidOrdering ==
    (RanThreshold /\ InvalidOrdering) =>
        /\ ~SentSet
        /\ IF ~run.args.list /\ run.args.thermal # "None"
           THEN run.exit = 1
           ELSE run.exit = 0

\* a named thermal, -ht at or above the current high-critical threshold as
\* read back, refused with exit code 1
C10_Witness ==
    /\ RanThreshold
    /\ ~run.args.list
    /\ run.args.thermal # "None"
    /\ run.args.high_threshold # NoArg
    /\ run.args.high_crit_threshold = NoArg
    /\ run.env.read_crit = "value"
    /\ run.args.high_threshold # NaN
    /\ run.args.high_threshold >= run.before.crit
    /\ Asked(run.io, "get_high_critical_threshold")
    /\ run.exit = 1
    /\ ~SentSet

(***************************************************************************)
(* The boot-time IPMI wait                                                 *)
(***************************************************************************)
\* the OEM command of init_ipmi_oem_cmd
OemCommand == Sh("ipmitool raw 0x34 0x95")

\* the register writes of device_install's config_sfp, whose tables hold
\* the same write more than once
RetimerWrites ==
    {AllWrites(FRONT, S_25G)[k] : k \in 1..Len(AllWrites(FRONT, S_25G))}

\* the requests that found the IPMI device node
DevFound ==
    {i \in 1..Len(run.log) :
         /\ run.log[i].kind = "exists"
         /\ run.log[i].cmd \in {"/dev/ipmi0", "/dev/ipmidev/0"}
         /\ ~Fails(run.env, i)}

\* the OEM commands that succeeded
OemDone ==
    {i \in 1..Len(run.log) : run.log[i] = OemCommand /\ ~Fails(run.env, i)}

\* the OEM commands that failed
OemFailed ==
    {i \in 1..Len(run.log) : run.log[i] = OemCommand /\ Fails(run.env, i)}

\* the module-load rounds started
Rounds == {i \in 1..Len(run.log) : run.log[i] = LoadIpmi[1]}

\* the module-load rounds given up: the unloading follows no found device
RoundsLost == {i \in 1..Len(run.log) : run.log[i] = UnloadIpmi[1]}

\* the calls of init_ipmi_dev_intf that failed: each ATTEMPTS-th round lost
\* in a row since the device was last found (found: DevFound, lost:
\* RoundsLost)
DevAttemptsLost(found, lost) ==
    {i \in lost :
         Cardinality({k \in lost :
                          /\ k <= i
                          /\ \A j \in found : j < i => j < k})
             % ATTEMPTS = 0}

\* the OEM tries made in a row from the i-th request on
OemTriesFrom(i) ==
    {k \in i..Len(run.log) : \A n \in i..k : run.log[n] = OemCommand}

\* the shell commands run again right after they failed
Retried ==
    {i \in 1..(Len(run.log) - 1) :
         /\ run.log[i + 1] = run.log[i]
         /\ run.log[i].kind = "sh"
         /\ run.log[i] \notin RetimerWrites
         /\ Failed(i)}

KosModules == {kos[k][2] : k \in 1..Len(kos)}

\* 'modprobe <m>' for the modules of kos in list order
LoadCommands == [k \in 1..Len(kos) |-> Sh("modprobe " \o kos[k][2])]

\* 'modprobe -rq <m>' for the modules of kos in list order
RemovalCommands == [k \in 1..Len(kos) |-> Sh("modprobe -rq " \o kos[k][2])]

\* the loads of modules of kos the run made, in the order made
KosLoads ==
    LET IsLoad(rq) == \E k \in 1..Len(kos) : rq = LoadCommands[k]
    IN  SelectSeq(run.log, IsLoad)

\* the removals of modules of kos the run made, in the order made
KosRemovals ==
    LET IsRemoval(rq) == \E k \in 1..Len(kos) : rq = RemovalCommands[k]
    IN  SelectSeq(run.log, IsRemoval)

\* C12: driver_install issues the 13 'modprobe <m>' commands of kos in list
\* order, and driver_uninstall issues 'modprobe -rq <m>' for exactly the
\* same modules in exactly the reverse of that order.
C12_ModuleOrder ==
    run.cmd \in {"install", "clean"} =>
        LET loads == KosLoads
            removals == KosRemovals
        IN  /\ Len(kos) = 13
            /\ Cardinality(KosModules) = 13
            /\ Len(loads) <= 13
            /\ \A k \in 1..Len(loads) : loads[k] = LoadCommands[k]
            /\ Len(removals) <= 13
            /\ \A k \in 1..Len(removals) :
                   removals[k] = RemovalCommands[13 + 1 - k]
            /\ (run.cmd = "install" /\ ~run.sys.drivers)
                   => Len(loads) = 13 /\ removals = <<>>
            /\ (run.cmd = "clean" /\ run.sys.drivers)
                   => Len(removals) = 13 /\ loads = <<>>

\* a clean that removed all 13 modules, the first removal failing
C12_Witness ==
    /\ run.cmd = "clean"
    /\ run.sys.drivers
    /\ Len(KosRemovals) = 13
    /\ \E i \in 1..Len(run.log) :
           run.log[i] = Sh("modprobe -rq accton_as9817_32_mux") /\ Failed(i)

(***************************************************************************)
(* The range of a threshold argument                                       *)
(***************************************************************************)
\* the values given to -ht and -hct by the last run
GivenValues ==
    {run.args.high_threshold, run.args.high_crit_threshold} \ {NoArg}

\* v is a number of the closed range [30.0, 110.0]
InRange(v) ==
    /\ v \notin {NotANumber, NaN}
    /\ THRESHOLD_RANGE_LOW <= v
    /\ v <= THRESHOLD_RANGE_HIGH

\* C13: a value given to -ht or -hct is accepted exactly when it lies in
\* the closed range [30.0, 110.0]; every value below 30.0 or above 110.0,
\* and every non-numeric argument, is rejected with an argument error
\* before any threshold is read or set.
C13_RangeAsStated ==
    run.cmd = "threshold" =>
        /\ run.exc = "ArgumentTypeError" <=> \E v \in GivenValues : ~InRange(v)
        /\ (\E v \in GivenValues : ~InRange(v))
               => /\ run.io = <<>>
                  /\ thermal = run.before
                  /\ run.exit = 2

\* -ht nan on a named thermal: read and set scripts are sent
C13_NanAccepted ==
    /\ run.cmd = "threshold"
    /\ run.args.high_threshold = NaN
    /\ run.exc = ""
    /\ Asked(run.io, "get_high_critical_threshold")
    /\ SentSet

(***************************************************************************)
(* Sfp.reset                                                               *)
(***************************************************************************)
\* the sysfs writes of the last call, in the order made
Writes ==
    LET IsWrite(a) == a.kind = "write"
    IN  SelectSeq(call.io, IsWrite)

\* the write of v to module_reset_<n> of this port
ResetWrite(v) ==
    [kind |-> "write",
     target |-> "/sys/devices/platform/as9817_32_fpga/module_reset_"
                    \o ToStr(port_num),
     value |-> v]

\* C14: reset returns False without writing module_reset_<n> when the
\* module is absent or the port number is > 32; otherwise it writes 1 and
\* then 0 to module_reset_<n>, in that order; if the write of 1 fails the
\* write of 0 is never issued and the failure is returned; reset returns
\* True only if both writes succeeded.
C14_Reset ==
    call.op = "reset" =>
        /\ (~SeenPresent \/ port_num > 32) =>
               (call.ret = "False" /\ Writes = <<>>)
        /\ (SeenPresent /\ port_num <= 32) =>
               /\ Len(Writes) >= 1
               /\ Writes[1] = ResetWrite("1")
               /\ call.input.api # "True" =>
                      (Writes = <<ResetWrite("1")>> /\ call.ret = call.input.api)
               /\ call.input.api = "True" =>
                      /\ Writes = <<ResetWrite("1"), ResetWrite("0")>>
                      /\ call.ret = call.input.wr
        /\ call.ret = "True" =>
               (call.input.api = "True" /\ call.input.wr = "True")

\* a reset of a present module on port 32 whose write of 1 failed
C14_Witness ==
    /\ call.op = "reset"
    /\ port_num = 32
    /\ SeenPresent
    /\ call.input.api = "False"
    /\ call.ret = "False"
    /\ Writes = <<ResetWrite("1")>>

(***************************************************************************)
(* The retimer helpers                                                     *)
(***************************************************************************)
\* the write of value to register of the retimer
RetimerWrite(register, value) ==
    Sh("/usr/sbin/i2cset -f -y 42 0x1b " \o register \o " " \o value)

\* the writes of the helper the run called, were none to fail
HelperTable ==
    IF run.cmd = "df810_txfir_set"
    THEN RetimerCommands(TxfirRegisters(run.args.offset, run.args.pre,
                                        run.args.main, run.args.post))
    ELSE IF run.cmd = "df810_cdr_bw_set"
    THEN RetimerCommands(CdrBwRegisters(run.args.offset, run.args.param1,
                                        run.args.param2))
    ELSE CrossPointCommands

\* C15: df810_txfir_set (9 writes), df810_cdr_bw_set (6 writes) and
\* df810_cross_point (page select, then per channel 0..7 in ascending order
\* the channel select followed by 9 writes) issue their writes in table
\* order, stop at the first failed write with no later write, and return
\* False if and only if one of their writes failed.
C15_HelperStops ==
    run.cmd \in {"df810_txfir_set", "df810_cdr_bw_set", "df810_cross_point"}
    => LET table == HelperTable
           n == Len(run.log)
       IN  /\ run.cmd = "df810_txfir_set" => Len(table) = 9
           /\ run.cmd = "df810_cdr_bw_set" => Len(table) = 6
           /\ run.cmd = "df810_cross_point" =>
                  /\ Len(table) = 1 + 8 * 10
                  /\ table[1] = RetimerWrite("0xff", "0x01")
                  /\ \A c \in 0..7 :
                         /\ table[2 + 10 * c] = RetimerWrite("0xfc", Hex2(2 ^ c))
                         /\ \A k \in 1..9 :
                                table[2 + 10 * c + k] =
                                    RetimerWrite(CrossPointRegisters[k][1],
                                                 CrossPointRegisters[k][2])
           /\ run.cmd # "df810_cross_point" =>
                  /\ table[1] = RetimerWrite("0xff", "0x01")
                  /\ table[2] = RetimerWrite("0xfc", Hex2(2 ^ run.args.offset))
           /\ n \in 1..Len(table)
           /\ \A i \in 1..n : run.log[i] = table[i]
           /\ \A i \in 1..n : Fails(run.env, i) => i = n
           /\ (\A i \in 1..n : ~Fails(run.env, i)) => n = Len(table)
           /\ run.ret = "False" <=> \E i \in 1..n : Fails(run.env, i)
           /\ run.ret \in {"False", "None"}

\* df810_cross_point stopped by the failure of the fifth register write of
\* channel 3
C15_Witness ==
    /\ run.cmd = "df810_cross_point"
    /\ Len(run.log) = 1 + 3 * 10 + 1 + 5
    /\ Fails(run.env, Len(run.log))
    /\ run.log[Len(run.log)] = RetimerWrite("0x96", "0x06")
    /\ run.ret = "False"

(***************************************************************************)
(* Sfp.get_error_description                                               *)
(***************************************************************************)
\* the base class reported a state in the last get_error_description call
OptoeReports == call.input.optoe \notin {"None", "NotImplementedError"}

\* the errors of the platform in the last get_error_description call, in
\* the order of the description dictionary
PlatformErrors ==
    IF ~get_presence(call.input.pres2) THEN <<SFP_STATUS_UNPLUGGED>>
    ELSE (IF call.input.err_eeprom # "" THEN <<call.input.err_eeprom>>
          ELSE <<>>)
         \o (IF ~validate_temperature(call.input.temperature,
                                      call.input.threshold_dict)
             THEN <<ErrorDescription(SFP_ERROR_BIT_HIGH_TEMP)>> ELSE <<>>)

RECURSIVE PipeJoined(_)
\* the messages joined by '|'
PipeJoined(msgs) ==
    IF msgs = <<>> THEN ""
    ELSE IF Len(msgs) = 1 THEN msgs[1]
    ELSE msgs[1] \o "|" \o PipeJoined(Tail(msgs))

\* C16: get_error_description returns 'Unplugged' for an absent module and
\* the bad-EEPROM description when there is no transceiver API; otherwise
\* it returns OK only if neither the base class nor the platform reports,
\* the one message when one side reports, '<optoe state>|<platform state>'
\* when both do, and so always separates multiple errors by '|'.
C16_ErrorDescription ==
    call.op = "get_error_description" =>
        LET errors == (IF OptoeReports THEN <<call.input.optoe>> ELSE <<>>)
                      \o PlatformErrors
        IN  /\ ~SeenPresent => call.ret = SFP_STATUS_UNPLUGGED
            /\ (SeenPresent /\ call.input.api = "None") =>
                   call.ret = "Bad or unsupported EEPROM"
            /\ (SeenPresent /\ call.input.api # "None") =>
                   /\ call.ret = SFP_STATUS_OK <=> errors = <<>>
                   /\ errors # <<>> => call.ret = PipeJoined(errors)

\* a present module with a transceiver API, a state from the base class,
\* a bad checksum and an over-temperature: the result has one '|' for
\* three errors
C16_Unseparated ==
    /\ call.op = "get_error_description"
    /\ SeenPresent
    /\ call.input.api # "None"
    /\ call.input.pres2 = "1"
    /\ call.input.optoe = "ModuleLowPwr"
    /\ call.input.err_eeprom = "EEPROM checksum error"
    /\ call.input.temperature.kind = "None"
    /\ call.ret = "ModuleLowPwr|EEPROM checksum errorHigh temperature"

(***************************************************************************)
(* The ordering of the two thresholds                                      *)
(***************************************************************************)
\* the reads of the last run came back with the current values
ReadsSucceeded ==
    run.env.read_crit = "value" /\ run.env.read_high = "value"

\* the setters the last run sent to the platform daemon, in their order
SettersSent ==
    IF run.io # <<>> /\ run.io[Len(run.io)].op = "set"
    THEN run.io[Len(run.io)].script ELSE <<>>

\* C17: a run of the threshold command on a sensor whose high threshold is
\* strictly below its high-critical threshold, its reads of the current
\* values succeeding, leaves the high threshold strictly below the
\* high-critical threshold, whether it was given -ht, -hct or both; the
\* setters it sends are set_high_threshold first, then
\* set_high_critical_threshold, each with the value given.
C17_OrderingKept ==
    (run.cmd = "threshold" /\ ReadsSucceeded
         /\ run.before.high < run.before.crit)
    => /\ thermal.high < thermal.crit
       /\ thermal.high \in {run.before.high, run.args.high_threshold}
       /\ thermal.crit \in {run.before.crit, run.args.high_crit_threshold}
       /\ \A i \in 1..Len(run.io) : run.io[i].op = "set" => i = Len(run.io)
       /\ SettersSent # <<>> =>
              SettersSent =
                  (IF run.args.high_threshold # NoArg
                   THEN <<Setter("set_high_threshold",
                                 run.args.high_threshold)>>
                   ELSE <<>>)
                  \o (IF run.args.high_crit_threshold # NoArg
                      THEN <<Setter("set_high_critical_threshold",
                                    run.args.high_crit_threshold)>>
                      ELSE <<>>)

\* a run given both values whose two setters were applied and moved the
\* sensor's thresholds
C17_Witness ==
    /\ run.cmd = "threshold"
    /\ ReadsSucceeded
    /\ run.before.high < run.before.crit
    /\ Len(SettersSent) = 2
    /\ thermal.high = run.args.high_threshold
    /\ thermal.crit = run.args.high_crit_threshold
    /\ thermal # run.before

(***************************************************************************)
(* The MUX around the retimer writes of config_sfp                         *)
(***************************************************************************)
\* the write that opens and the write that closes the MUX at 0x72
MuxEnable == Sh(I2cSet(TI_MUX_I2C_BUS, "0x72", "0x00", "0x01"))

MuxDisable == Sh(I2cSet(TI_MUX_I2C_BUS, "0x72", "0x00", "0x00"))

\* the elements of a sequence
Range(seq) == {seq[i] : i \in 1..Len(seq)}

\* every write to the retimer (bus 42, address 0x1b) that config_sfp and
\* its helpers have in their tables
RetimerCommandSet ==
    Range(RetimerCommands(BaseRegisters(S_10G)))
        \cup Range(RetimerCommands(BaseRegisters(S_25G)))
        \cup UNION {Range(RetimerCommands(
                               TxfirRegisters(o, t[1], t[2], t[3]))) :
                        o \in 0..7, t \in TxfirTaps}
        \cup UNION {Range(RetimerCommands(CdrBwRegisters(o, 36, 252))) :
                        o \in 0..7}
        \cup Range(CrossPointCommands)

\* C18: in config_sfp a write to the retimer is issued only after the
\* MUX-enable write has succeeded, nothing is written after a failed
\* MUX-enable, and True is returned only if the MUX-enable, the eight base
\* register writes and the MUX-disable succeeded, the MUX-disable being the
\* last write issued.
C18_MuxAroundWrites ==
    run.cmd = "config_sfp" =>
        LET n == Len(run.log)
            base == RetimerCommands(BaseRegisters(run.args.speed))
        IN  /\ n >= 1
            /\ run.log[1] = MuxEnable
            /\ Failed(1) => (n = 1 /\ run.ret = "False")
            /\ \A i \in 2..n :
                   /\ run.log[i] \in RetimerCommandSet \cup {MuxDisable}
                   /\ ~Failed(1)
                   /\ run.log[i] = MuxDisable => i = n
            /\ run.ret = "True" =>
                   /\ n >= Len(base) + 2
                   /\ Len(base) = 8
                   /\ \A i \in 1..Len(base) :
                          run.log[i + 1] = base[i] /\ ~Failed(i + 1)
                   /\ run.log[n] = MuxDisable
                   /\ ~Failed(1) /\ ~Failed(n)
            /\ run.ret \in {"True", "False"}

\* config_sfp(FRONT, 25G) returning True after a write of one of its
\* helpers failed
C18_Witness ==
    /\ run.cmd = "config_sfp"
    /\ run.args.dest = FRONT
    /\ run.args.speed = S_25G
    /\ run.ret = "True"
    /\ run.log[Len(run.log)] = MuxDisable
    /\ \E i \in 10..(Len(run.log) - 1) :
           Failed(i) /\ run.log[i] \in RetimerCommandSet

(***************************************************************************)
(* Sfp.sfp_type over the life of the object                                *)
(***************************************************************************)
\* the type an identifier byte stands for, "" for a byte in no code list
TypeOfIdentifier(b) ==
    IF b \in {3, 11} THEN "SFP"
    ELSE IF b \in {12, 13, 17, 225} THEN "QSFP"
    ELSE IF b \in {24, 30} THEN "QSFP_DD"
    ELSE IF b = 25 THEN "OSFP"
    ELSE ""

\* C19: sfp_type is always one of SFP, QSFP, QSFP_DD, OSFP; the constructor
\* starts from QSFP; a call of update_sfp_type (the constructor's included)
\* that returns 'Done' leaves the type of the identifier byte it read, and
\* a call that returns 'unknow sfp ID' or 'eeprom not ready' leaves
\* sfp_type as it was.
C19_SfpType ==
    /\ sfp_type \in {"SFP", "QSFP", "QSFP_DD", "OSFP"}
    /\ call.op = "__init__" => call.type_before = "QSFP"
    /\ RanUpdate =>
           /\ call.ret = "Done" =>
                  /\ call.input \in 0..255
                  /\ TypeOfIdentifier(call.input) # ""
                  /\ sfp_type = TypeOfIdentifier(call.input)
           /\ call.ret # "Done" => sfp_type = call.type_before
           /\ call.ret \in {"unknow sfp ID", "eeprom not ready"} =>
                  TypeOfIdentifier(call.input) = ""

\* a module recognised as OSFP earlier whose identifier byte is then in no
\* code list: the call returns 'unknow sfp ID' and the type stays OSFP
C19_Witness ==
    /\ call.op = "update_sfp_type"
    /\ call.ret = "unknow sfp ID"
    /\ call.type_before = "OSFP"
    /\ sfp_type = "OSFP"

(***************************************************************************)
(* The order of device_install                                             *)
(***************************************************************************)
\* the creation of the mux device node
MuxNode ==
    Sh("echo as9817_32_mux 0x78 > /sys/bus/i2c/devices/i2c-0/new_device")

\* what follows the mux node: the EEPROM device of ports 1..34 on bus
\* port + 1, reset release and low-power-mode disable of ports 1..32, and
\* the first write of config_sfp
PortSteps ==
    [p \in 1..34 |->
         Sh("echo " \o (IF p <= 32 THEN "optoe3" ELSE "optoe2")
            \o " 0x50 > /sys/bus/i2c/devices/i2c-" \o ToStr(p + 1)
            \o "/new_device")]
    \o [p \in 1..32 |->
            Sh("echo 0 > /sys/devices/platform/as9817_32_fpga/module_reset_"
               \o ToStr(p))]
    \o [p \in 1..32 |->
            Sh("echo 0 > /sys/devices/platform/as9817_32_fpga/module_lp_mode_"
               \o ToStr(p))]
    \o <<MuxEnable>>

\* the steps of device_install that the run made, in the order it made them
StepsMade ==
    LET all == {MuxNode} \cup Range(PortSteps)
               \cup Range(AllWrites(FRONT, S_25G))
        IsStep(rq) == rq \in all
    IN  SelectSeq(run.log, IsStep)

\* C20: an install run that reaches device_install creates the mux device
\* node, then the EEPROM devices at 0x50 on the buses of sfp_map in
\* ascending order (optoe3 on buses 2..33, optoe2 on buses 34 and 35), then
\* releases the reset of ports 1..32, then disables the low-power mode of
\* ports 1..32, and only then runs config_sfp(FRONT, 25G); the bus of port
\* p is the bus p + 1 of Sfp's EEPROM path.
C20_DeviceInstallOrder ==
    /\ run.cmd = "install" =>
           LET made == StepsMade
               n == Len(PortSteps)
           IN  made # <<>> =>
                   /\ Len(made) >= n + 1
                   /\ made[1] = MuxNode
                   /\ \A k \in 1..n : made[k + 1] = PortSteps[k]
                   /\ \A k \in (n + 2)..Len(made) :
                          made[k] \in RetimerCommandSet \cup {MuxDisable}
    /\ Len(sfp_map) = 34
    /\ \A p \in 1..34 :
           /\ sfp_map[p] = p + 1
           /\ port_to_i2c_mapping[p] = sfp_map[p]
           /\ port_to_eeprom_mapping[p] =
                  "/sys/bus/i2c/devices/" \o ToStr(sfp_map[p])
                      \o "-0050/eeprom"

\* an install run in which the creation of the EEPROM device of port 33
\* failed and the retimer configuration was still reached, after the
\* low-power-mode disable of port 32
C20_Witness ==
    /\ run.cmd = "install"
    /\ \E i \in 1..Len(run.log) :
           /\ run.log[i] = PortSteps[33]
           /\ Failed(i)
           /\ i + 66 <= Len(run.log)
           /\ run.log[i + 65] = PortSteps[34 + 32 + 32]
           /\ run.log[i + 66] = MuxEnable

(***************************************************************************)
(* The deletes of device_uninstall                                         *)
(***************************************************************************)
\* the delete of the 0x50 device on the buses 2..35, then of the mux node
DeviceDeletes ==
    [k \in 1..34 |->
         Sh("echo 0x50 > /sys/bus/i2c/devices/i2c-" \o ToStr(k + 1)
            \o "/delete_device")]
    \o <<Sh("echo 0x78 > /sys/bus/i2c/devices/i2c-0/delete_device")>>

\* the delete of the system EEPROM device
SystemEepromDelete ==
    Sh("echo 0x56 > /sys/bus/i2c/devices/i2c-36/delete_device")

\* os.path.isfile of the system EEPROM
SystemEepromIsFile == Request("isfile", "/sys/bus/i2c/devices/36-0056/eeprom")

\* the last run was a clean that found the devices and so ran
\* device_uninstall, after the two requests of device_exist
RanDeviceUninstall ==
    run.cmd = "clean" /\ run.sys.dev0070 /\ run.sys.i2c2

\* C21: device_uninstall deletes the 0x50 device on every bus of sfp_map,
\* then each mknod entry in reverse order, then the 0x56 system EEPROM on
\* i2c-36 exactly when /sys/bus/i2c/devices/36-0056/eeprom exists (and
\* issues no delete at that step when it does not), then removes the two
\* threshold files; no device-delete command is issued twice in one run.
C21_DeletesOnce ==
    RanDeviceUninstall =>
        LET n == Len(DeviceDeletes)
            deletes == Range(DeviceDeletes) \cup {SystemEepromDelete}
            files == IF Failed(n + 3) THEN n + 4 ELSE n + 5
        IN  /\ Len(run.log) >= files + 1
            /\ \A k \in 1..n : run.log[2 + k] = DeviceDeletes[k]
            /\ run.log[n + 3] = SystemEepromIsFile
            /\ ~Failed(n + 3) => run.log[n + 4] = SystemEepromDelete
            /\ run.log[files] = Sh("rm -f /tmp/device_threshold.json")
            /\ run.log[files + 1] =
                   Sh("rm -f /tmp/device_threshold.json.lock")
            /\ \A i, j \in 1..Len(run.log) :
                   (run.log[i] \in deletes /\ run.log[i] = run.log[j])
                   => i = j

\* a clean run that did not find the system EEPROM file: the delete of the
\* mux node is issued before the test and once more after it
C21_MuxDeletedTwice ==
    /\ RanDeviceUninstall
    /\ run.log[Len(DeviceDeletes) + 3] = SystemEepromIsFile
    /\ Failed(Len(DeviceDeletes) + 3)
    /\ run.log[Len(DeviceDeletes) + 2] = DeviceDeletes[Len(DeviceDeletes)]
    /\ run.log[Len(DeviceDeletes) + 4] = DeviceDeletes[Len(DeviceDeletes)]
    /\ run.log[Len(DeviceDeletes) + 5] = Sh("rm -f /tmp/device_threshold.json")

(***************************************************************************)
(* The stages of install and clean                                         *)
(***************************************************************************)
\* the requests of driver_check and of device_exist
DriverCheckLs == Sh("ls /sys/module/*accton*")

DeviceExistLs == <<Sh("ls /sys/bus/i2c/devices/*0070"),
                   Sh("ls /sys/bus/i2c/devices/i2c-2")>>

\* the loads of a module that driver_install makes
ModuleLoads ==
    {Sh("modprobe ice")} \cup Range(LoadCommands)
        \cup {Sh("modprobe " \o m) :
                  m \in {"ipmi_msghandler", "ipmi_ssif", "ipmi_si",
                         "ipmi_devintf"}}

\* the creations of a device node that device_install makes
NodeCreations ==
    {MuxNode, Sh("echo 24c02 0x56 > /sys/bus/i2c/devices/i2c-36/new_device")}
        \cup {PortSteps[p] : p \in 1..34}

\* the deletes of a device that device_uninstall makes
NodeDeletes == Range(DeviceDeletes) \cup {SystemEepromDelete}

\* where the run first made the request (0: nowhere)
FirstAt(rq) ==
    IF Ran(rq)
    THEN CHOOSE i \in 1..Len(run.log) :
             run.log[i] = rq /\ \A j \in 1..(i - 1) : run.log[j] # rq
    ELSE 0

\* the positions of the run's requests that are in the set
Positions(rqs) == {i \in 1..Len(run.log) : run.log[i] \in rqs}

\* C22: do_install runs driver_install only when driver_check reports no
\* driver and device_install only when device_exist reports no devices,
\* drivers before devices; do_uninstall runs device_uninstall only when
\* devices exist and driver_uninstall only when drivers are loaded, devices
\* before drivers; so an install on a system with drivers and devices
\* present loads no module and creates no device node.
C22_StagesSkipDoneWork ==
    /\ run.cmd = "install" =>
           LET d == FirstAt(DeviceExistLs[1])
               loads == Positions(ModuleLoads)
               nodes == Positions(NodeCreations)
           IN  /\ run.log[1] = DriverCheckLs
               /\ d > 1 /\ Len(run.log) > d
               /\ run.log[d + 1] = DeviceExistLs[2]
               /\ IF run.sys.drivers THEN d = 2 /\ loads = {}
                  ELSE /\ run.log[2] = Sh("modprobe ice")
                       /\ \A k \in 1..Len(LoadCommands) :
                              \E i \in loads : run.log[i] = LoadCommands[k]
               /\ IF run.sys.dev0070 /\ run.sys.i2c2 THEN nodes = {}
                  ELSE run.log[d + 2] = MuxNode
               /\ \A i \in loads : i < d
               /\ \A i \in nodes : i > d + 1
               /\ (run.sys.drivers /\ run.sys.dev0070 /\ run.sys.i2c2) =>
                      run.log[4] = Sh(LedLoc)
    /\ run.cmd = "clean" =>
           LET c == FirstAt(DriverCheckLs)
               deletes == Positions(NodeDeletes)
               removals == Positions(Range(RemovalCommands))
           IN  /\ run.log[1] = DeviceExistLs[1]
               /\ run.log[2] = DeviceExistLs[2]
               /\ c > 2
               /\ IF run.sys.dev0070 /\ run.sys.i2c2
                  THEN run.log[3] = DeviceDeletes[1]
                  ELSE c = 3 /\ deletes = {}
               /\ IF run.sys.drivers
                  THEN /\ Len(run.log) > c
                       /\ run.log[c + 1] =
                              RemovalCommands[Len(RemovalCommands)]
                  ELSE removals = {}
               /\ \A i \in deletes : i < c
               /\ \A i \in removals : i > c

\* an install run on a system with drivers and devices present: the three
\* checks, then the LED, with no module loaded and no device node created
C22_Witness ==
    /\ run.cmd = "install"
    /\ run.sys.drivers /\ run.sys.dev0070 /\ run.sys.i2c2
    /\ Len(run.log) > 4
    /\ run.log[4] = Sh(LedLoc)
    /\ Positions(ModuleLoads) = {}
    /\ Positions(NodeCreations) = {}

====
